---- MODULE Spec2Model ----
(***************************************************************************)
(* A model of the hubba terminal physics playground: the entity registry   *)
(* (EntityManager), the entities (BaseEntity, Sphere, Sprite), the physics *)
(* engine (PhysicsEngine), the animation smoother (AnimationEngine) and    *)
(* the message handler of the application (Model.Update).                  *)
(*                                                                         *)
(* float64 values are fixed-point integers, Scale units to 1.0, with three *)
(* special values for NaN, +Inf and -Inf; every arithmetic operator of the *)
(* code is an F-operator below that propagates the special values the way  *)
(* IEEE-754 does and truncates products and quotients toward zero.         *)
(***************************************************************************)
EXTENDS Integers, Sequences, FiniteSets, TLC

VARIABLES
    em,        \* EntityManager.entities: the sequence of stored entities
    pe,        \* the PhysicsEngine
    m,         \* the fields of the application Model
    snapshot,  \* the slice last returned by GetEntities / findCollisions
    ret,       \* the value returned by the last registry call
    hist,      \* history: the operation last performed and the state before it
    nextPtr,   \* the next fresh entity address
    steps,     \* number of operations performed so far (bounds the runs)
    mu,        \* EntityManager.mu: who holds the sync.RWMutex
    gs,        \* the goroutines calling the EntityManager: each one's position
    heap       \* the backing arrays of the slices, and the slice em.entities

vars == <<em, pe, m, snapshot, ret, hist, nextPtr, steps, mu, gs, heap>>

----------------------------------------------------------------------------
(* float64 *)

Scale == 1000
MaxFloat == 2000000

PosInf == MaxFloat + 1
NegInf == 0 - (MaxFloat + 1)
NaN == MaxFloat + 2

IsNaN(x) == x = NaN
IsInf(x) == x = PosInf \/ x = NegInf
IsFinite(x) == ~IsNaN(x) /\ ~IsInf(x)

Abs(n) == IF n < 0 THEN 0 - n ELSE n
Sgn(n) == IF n > 0 THEN 1 ELSE IF n < 0 THEN 0 - 1 ELSE 0

\* a finite result that left the finite range overflows to an infinity
Norm(n) == IF n > MaxFloat THEN PosInf ELSE IF n < 0 - MaxFloat THEN NegInf ELSE n

FNeg(a) ==
    IF IsNaN(a) THEN NaN
    ELSE IF a = PosInf THEN NegInf
    ELSE IF a = NegInf THEN PosInf
    ELSE 0 - a

FAdd(a, b) ==
    IF IsNaN(a) \/ IsNaN(b) THEN NaN
    ELSE IF IsInf(a) THEN (IF IsInf(b) /\ a # b THEN NaN ELSE a)
    ELSE IF IsInf(b) THEN b
    ELSE Norm(a + b)

FSub(a, b) == FAdd(a, FNeg(b))

\* |a| * |b| / Scale for finite a, b, truncated; MaxFloat + 1 when it overflows
MulMag(x, y) ==
    LET q == x \div Scale
        r == x % Scale
    IN  IF q > 0 /\ y > MaxFloat \div q THEN MaxFloat + 1
        ELSE q * y + (r * y) \div Scale

FMul(a, b) ==
    IF IsNaN(a) \/ IsNaN(b) THEN NaN
    ELSE IF IsInf(a) \/ IsInf(b)
         THEN (IF a = 0 \/ b = 0 THEN NaN
               ELSE IF Sgn(a) * Sgn(b) > 0 THEN PosInf ELSE NegInf)
    ELSE Norm(Sgn(a) * Sgn(b) * MulMag(Abs(a), Abs(b)))

FDiv(a, b) ==
    IF IsNaN(a) \/ IsNaN(b) THEN NaN
    ELSE IF IsInf(a)
         THEN (IF IsInf(b) THEN NaN
               ELSE IF Sgn(a) * (IF b < 0 THEN 0 - 1 ELSE 1) > 0 THEN PosInf ELSE NegInf)
    ELSE IF IsInf(b) THEN 0
    ELSE IF b = 0
         THEN (IF a = 0 THEN NaN ELSE IF a > 0 THEN PosInf ELSE NegInf)
    ELSE Norm(Sgn(a) * Sgn(b) * ((Abs(a) * Scale) \div Abs(b)))

\* the comparisons of Go: every comparison with NaN is false
FLt(a, b) == ~IsNaN(a) /\ ~IsNaN(b) /\ a < b
FLe(a, b) == ~IsNaN(a) /\ ~IsNaN(b) /\ a <= b
FGt(a, b) == ~IsNaN(a) /\ ~IsNaN(b) /\ a > b
FGe(a, b) == ~IsNaN(a) /\ ~IsNaN(b) /\ a >= b
FEq(a, b) == ~IsNaN(a) /\ ~IsNaN(b) /\ a = b
FNe(a, b) == ~FEq(a, b)

\* math.Abs
FAbs(a) == IF IsNaN(a) THEN NaN ELSE IF IsInf(a) THEN PosInf ELSE Abs(a)

\* math.Copysign(mag, sign) for a finite positive magnitude
Copysign(mag, sign) == IF sign < 0 THEN 0 - Abs(mag) ELSE Abs(mag)

\* float64(n) for an int n
FromInt(n) == Norm(n * Scale)

\* floor of the square root of a natural number
RECURSIVE SqrtSearch(_, _, _)
SqrtSearch(n, lo, hi) ==
    IF lo >= hi THEN lo
    ELSE LET mid == (lo + hi + 1) \div 2
         IN  IF mid * mid <= n THEN SqrtSearch(n, mid, hi)
             ELSE SqrtSearch(n, lo, mid - 1)

ISqrt(n) == SqrtSearch(n, 0, 46340)

\* math.Sqrt(a*a + b*b): the squares are formed at reduced precision when they
\* would leave the 32-bit integer range
Hypot(a, b) ==
    IF IsNaN(a) \/ IsNaN(b) THEN NaN
    ELSE IF IsInf(a) \/ IsInf(b) THEN PosInf
    ELSE LET x == Abs(a)
             y == Abs(b)
             big == IF x > y THEN x ELSE y
             k == (big \div 30000) + 1
         IN  k * ISqrt((x \div k) * (x \div k) + (y \div k) * (y \div k))

----------------------------------------------------------------------------
(* animation.go: EntityAnimationState and the spring of AnimationEngine *)

\* the coefficients harmonica.NewSpring(FPS(60), 300, 30) computes (over-damped)
posPosCoef == 920
posVelCoef == 0
velPosCoef == 0 - 4602
velVelCoef == 0

\* harmonica Spring.Update(pos, vel, equilibriumPos)
SpringUpdate(pos, vel, target) ==
    LET oldPos == FSub(pos, target)
    IN  [pos |-> FAdd(FAdd(FMul(oldPos, posPosCoef), FMul(vel, posVelCoef)), target),
         vel |-> FAdd(FMul(oldPos, velPosCoef), FMul(vel, velVelCoef))]

NewEntityAnimationState(x, y) ==
    [DisplayX |-> x, DisplayY |-> y, TargetX |-> x, TargetY |-> y,
     VelocityX |-> 0, VelocityY |-> 0, IsAnimating |-> FALSE]

SetTarget(eas, x, y) ==
    LET tx == IF IsNaN(x) \/ IsInf(x) THEN eas.DisplayX ELSE x
        ty == IF IsNaN(y) \/ IsInf(y) THEN eas.DisplayY ELSE y
    IN  [eas EXCEPT !.TargetX = tx, !.TargetY = ty, !.IsAnimating = TRUE]

AnimTolerance == 10
AnimVelocityThreshold == 10

UpdateAnimationState(eas) ==
    LET sx == SpringUpdate(eas.DisplayX, eas.VelocityX, eas.TargetX)
        sy == SpringUpdate(eas.DisplayY, eas.VelocityY, eas.TargetY)
        done == /\ FLt(FAbs(FSub(sx.pos, eas.TargetX)), AnimTolerance)
                /\ FLt(FAbs(FSub(sy.pos, eas.TargetY)), AnimTolerance)
                /\ FLt(FAbs(sx.vel), AnimVelocityThreshold)
                /\ FLt(FAbs(sy.vel), AnimVelocityThreshold)
    IN  [eas EXCEPT !.DisplayX = sx.pos, !.DisplayY = sy.pos,
                    !.VelocityX = sx.vel, !.VelocityY = sy.vel,
                    !.IsAnimating = IF done THEN FALSE ELSE @]

\* SetInitialPosition that moves the positions and keeps the spring velocity
MutSetInitialPositionKeepsVelocity(eas, x, y) ==
    [eas EXCEPT !.DisplayX = x, !.DisplayY = y, !.TargetX = x, !.TargetY = y,
                !.IsAnimating = FALSE]

SetInitialPosition(eas, x, y) ==
    [eas EXCEPT !.DisplayX = x, !.DisplayY = y, !.TargetX = x, !.TargetY = y,
                !.VelocityX = 0, !.VelocityY = 0, !.IsAnimating = FALSE]

----------------------------------------------------------------------------
(* entities: BaseEntity, Sphere, Sprite *)

SphereType == "sphere"
SpriteType == "sprite"

\* the size -> effective size table of GetBounds, NewSphere and NewSprite
EffectiveSize(size) ==
    IF size = 1 THEN 800
    ELSE IF size = 2 THEN 1000
    ELSE IF size = 3 THEN 1300
    ELSE IF size = 4 THEN 1600
    ELSE FMul(FromInt(size), 800)

\* generateID(prefix): "%s_%d_%d" of two random numbers r1, r2
generateID(prefix, r1, r2) == <<prefix, r1, r2>>

NewSphere(ptr, id, x, y, size0) ==
    LET size == IF size0 < 0 THEN 1 ELSE size0
        effectiveSize == EffectiveSize(size)
    IN  [ptr |-> ptr, ID |-> id, Type |-> SphereType,
         X |-> x, Y |-> y, VX |-> 0, VY |-> 0, Size |-> size,
         Mass |-> effectiveSize, Radius |-> FDiv(effectiveSize, 2000),
         AnimationState |-> NewEntityAnimationState(x, y)]

\* Radius is a field of Sphere only; a Sprite carries 0 there and never reads it
NewSprite(ptr, id, x, y, size) ==
    LET effectiveSize == EffectiveSize(size)
    IN  [ptr |-> ptr, ID |-> id, Type |-> SpriteType,
         X |-> x, Y |-> y, VX |-> 0, VY |-> 0, Size |-> size,
         Mass |-> FMul(effectiveSize, 800), Radius |-> 0,
         AnimationState |-> NewEntityAnimationState(x, y)]

SetPosition(e, x, y) == [e EXCEPT !.X = x, !.Y = y]

SetImmediatePosition(e, x, y) ==
    [e EXCEPT !.X = x, !.Y = y,
              !.AnimationState = SetInitialPosition(@, x, y)]

SetVelocity(e, vx, vy) ==
    [e EXCEPT !.VX = IF IsInf(vx) \/ IsNaN(vx) THEN 0 ELSE vx,
              !.VY = IF IsInf(vy) \/ IsNaN(vy) THEN 0 ELSE vy]

ApplyForce(e, fx, fy) ==
    IF FGt(e.Mass, 0)
    THEN [e EXCEPT !.VX = FAdd(@, FDiv(fx, e.Mass)),
                   !.VY = FAdd(@, FDiv(fy, e.Mass))]
    ELSE e

\* BaseEntity.Update; Sprite.Update adds a frame change of the symbol, which
\* reads and writes nothing modelled here
Update(e, deltaTime) ==
    LET x == FAdd(e.X, FMul(e.VX, deltaTime))
        y == FAdd(e.Y, FMul(e.VY, deltaTime))
    IN  [e EXCEPT !.X = x, !.Y = y,
                  !.AnimationState = SetTarget(@, x, y)]

\* the width GetBounds returns: Sphere overrides BaseEntity.GetBounds
BoundsWidth(e) ==
    IF e.Type = SphereType THEN FMul(e.Radius, 2000)
    ELSE EffectiveSize(e.Size)

UpdateAnimation(e) == [e EXCEPT !.AnimationState = UpdateAnimationState(@)]

----------------------------------------------------------------------------
(* EntityManager *)

NewEntityManager == <<>>

\* the zero sync.RWMutex: no goroutine holds the read lock, none (0) the write lock
NewRWMutex == [readers |-> {}, writer |-> 0]

\* no goroutine is inside a call of the EntityManager
NoGoroutines == <<>>

\* the backing arrays left out (where slices are taken by value)
NoHeap == <<>>

AddEntity(es, e) == Append(es, e)

\* the index of the first stored entity whose ID is id, 0 when there is none
RECURSIVE FirstWithID(_, _, _)
FirstWithID(es, id, i) ==
    IF i > Len(es) THEN 0
    ELSE IF es[i].ID = id THEN i
    ELSE FirstWithID(es, id, i + 1)

RemoveAt(es, i) == SubSeq(es, 1, i - 1) \o SubSeq(es, i + 1, Len(es))

\* a RemoveEntity that drops every stored entity with the ID
MutRemoveEntityAll(es, id) ==
    [entities |-> SelectSeq(es, LAMBDA e : e.ID # id),
     ok |-> FirstWithID(es, id, 1) # 0]

RemoveEntity(es, id) ==
    LET i == FirstWithID(es, id, 1)
    IN  IF i = 0 THEN [entities |-> es, ok |-> FALSE]
        ELSE [entities |-> RemoveAt(es, i), ok |-> TRUE]

\* the copy GetEntities returns: the addresses of the stored entities
GetEntities(es) == [i \in 1..Len(es) |-> es[i].ptr]

RECURSIVE FilterType(_, _, _)
FilterType(es, t, i) ==
    IF i > Len(es) THEN <<>>
    ELSE (IF es[i].Type = t THEN <<es[i].ptr>> ELSE <<>>) \o FilterType(es, t, i + 1)

GetEntitiesByType(es, t) == FilterType(es, t, 1)

Clear(es) == <<>>

Count(es) == Len(es)

RECURSIVE CountFrom(_, _, _)
CountFrom(es, t, i) ==
    IF i > Len(es) THEN 0
    ELSE (IF es[i].Type = t THEN 1 ELSE 0) + CountFrom(es, t, i + 1)

CountByType(es, t) == CountFrom(es, t, 1)

----------------------------------------------------------------------------
(* PhysicsEngine *)

DefaultGravity == 25000
DefaultAirResistance == 50
DefaultRestitution == 700
DefaultStaticFriction == 800
DefaultContactDamping == 900
DefaultMin == 1000
DefaultDeltaTime == 100
DefaultMaxVelocity == 50000
DefaultMinVelocity == 50
DefaultContactTolerance == 100
BoundsMargin == 2000
DefaultBounds == 10000

NewPhysicsEngine(boundsWidth0, boundsHeight0) ==
    LET boundsWidth == IF FLe(boundsWidth0, 0) THEN DefaultBounds ELSE boundsWidth0
        boundsHeight == IF FLe(boundsHeight0, 0) THEN DefaultBounds ELSE boundsHeight0
    IN  [Gravity |-> DefaultGravity,
         AirResistance |-> DefaultAirResistance,
         Restitution |-> DefaultRestitution,
         StaticFriction |-> DefaultStaticFriction,
         ContactDamping |-> DefaultContactDamping,
         MinX |-> DefaultMin,
         MinY |-> DefaultMin,
         MaxX |-> FSub(boundsWidth, BoundsMargin),
         MaxY |-> FSub(boundsHeight, BoundsMargin),
         DeltaTime |-> DefaultDeltaTime,
         MaxVelocity |-> DefaultMaxVelocity,
         MinVelocity |-> DefaultMinVelocity,
         ContactTolerance |-> DefaultContactTolerance]

UpdateBounds(p, width, height) ==
    [p EXCEPT !.MaxX = FSub(width, BoundsMargin), !.MaxY = FSub(height, BoundsMargin)]

applyGravity(p, e) == ApplyForce(e, 0, FMul(p.Gravity, p.DeltaTime))

applyAirResistance(p, e) ==
    ApplyForce(e, FMul(FNeg(p.AirResistance), e.VX), FMul(FNeg(p.AirResistance), e.VY))

updatePosition(p, e) == Update(e, p.DeltaTime)

\* vx and vy are read once, before the horizontal walls are handled, and the
\* vertical branch stores that vx again
handleBoundaryCollisions(p, e) ==
    LET x == e.X
        y == e.Y
        vx == e.VX
        vy == e.VY
        half == FDiv(FromInt(e.Size), 2000)
        entityMinX == FSub(x, half)
        entityMaxX == FAdd(x, half)
        entityMinY == FSub(y, half)
        entityMaxY == FAdd(y, half)
        hitLeft == FLe(entityMinX, p.MinX)
        hitRight == ~hitLeft /\ FGe(entityMaxX, p.MaxX)
        newX == IF hitLeft THEN FAdd(p.MinX, half)
                ELSE IF hitRight THEN FSub(p.MaxX, half)
                ELSE x
        e1 == IF hitLeft \/ hitRight
              THEN SetVelocity(SetImmediatePosition(e, newX, y),
                               FMul(FNeg(vx), p.Restitution), vy)
              ELSE e
        hitTop == FLe(entityMinY, p.MinY)
        hitBottom == ~hitTop /\ FGe(entityMaxY, p.MaxY)
        newY == IF hitTop THEN FAdd(p.MinY, half) ELSE FSub(p.MaxY, half)
    IN  IF hitTop \/ hitBottom
        THEN SetVelocity(SetImmediatePosition(e1, newX, newY),
                         vx, FMul(FNeg(vy), p.Restitution))
        ELSE e1

\* a capVelocity without the static friction
MutCapVelocityNoFriction(p, e) ==
    LET vx1 == IF FGt(FAbs(e.VX), p.MaxVelocity) THEN Copysign(p.MaxVelocity, e.VX) ELSE e.VX
        vy1 == IF FGt(FAbs(e.VY), p.MaxVelocity) THEN Copysign(p.MaxVelocity, e.VY) ELSE e.VY
        vx3 == IF FLt(FAbs(vx1), p.MinVelocity) THEN 0 ELSE vx1
        vy3 == IF FLt(FAbs(vy1), p.MinVelocity) THEN 0 ELSE vy1
    IN  SetVelocity(e, vx3, vy3)

capVelocity(p, e) ==
    LET vx1 == IF FGt(FAbs(e.VX), p.MaxVelocity) THEN Copysign(p.MaxVelocity, e.VX) ELSE e.VX
        vy1 == IF FGt(FAbs(e.VY), p.MaxVelocity) THEN Copysign(p.MaxVelocity, e.VY) ELSE e.VY
        totalSpeed == Hypot(vx1, vy1)
        slow == FLt(totalSpeed, FMul(p.MinVelocity, 3000))
        vx2 == IF slow THEN FMul(vx1, p.StaticFriction) ELSE vx1
        vy2 == IF slow THEN FMul(vy1, p.StaticFriction) ELSE vy1
        vx3 == IF FLt(FAbs(vx2), p.MinVelocity) THEN 0 ELSE vx2
        vy3 == IF FLt(FAbs(vy2), p.MinVelocity) THEN 0 ELSE vy2
    IN  SetVelocity(e, vx3, vy3)

\* the body of the loop of ApplyPhysics
PhysicsStep(p, e) ==
    capVelocity(p,
        handleBoundaryCollisions(p,
            updatePosition(p,
                applyAirResistance(p,
                    applyGravity(p, e)))))

ApplyPhysics(p, es) == [i \in 1..Len(es) |-> PhysicsStep(p, es[i])]

MutCheckEntityCollisionAddsTolerance(p, e1, e2) ==
    LET radius1 == FDiv(BoundsWidth(e1), 2000)
        radius2 == FDiv(BoundsWidth(e2), 2000)
        distance == Hypot(FSub(e2.X, e1.X), FSub(e2.Y, e1.Y))
    IN  FLt(distance, FAdd(FAdd(radius1, radius2), p.ContactTolerance))

checkEntityCollision(p, e1, e2) ==
    LET radius1 == FDiv(BoundsWidth(e1), 2000)
        radius2 == FDiv(BoundsWidth(e2), 2000)
        dx == FSub(e2.X, e1.X)
        dy == FSub(e2.Y, e1.Y)
        distance == Hypot(dx, dy)
        minDistance == FSub(FAdd(radius1, radius2), p.ContactTolerance)
    IN  FLt(distance, minDistance)

\* the pairs <<i, j>>, i < j, in the order the two loops append them
RECURSIVE CollisionsFrom(_, _, _, _)
CollisionsFrom(p, es, i, j) ==
    IF i > Len(es) THEN <<>>
    ELSE IF j > Len(es) THEN CollisionsFrom(p, es, i + 1, i + 2)
    ELSE (IF checkEntityCollision(p, es[i], es[j]) THEN <<(<<i, j>>)>> ELSE <<>>)
         \o CollisionsFrom(p, es, i, j + 1)

findCollisions(p, es) == CollisionsFrom(p, es, 1, 2)

EnergyLoss == 950
SeparationFactor == 500

\* the collision normal of resolveCollision and the distance it divides by:
\* <<nx, ny, distance>>; r1 and r2 are the two values rand.Float64() returns
\* when the centres coincide
collisionNormal(e1, e2, r1, r2) ==
    LET dx0 == FSub(e2.X, e1.X)
        dy0 == FSub(e2.Y, e1.Y)
        distance0 == Hypot(dx0, dy0)
        coincide == FEq(distance0, 0)
        dx == IF coincide THEN FMul(100, FSub(r1, 500)) ELSE dx0
        dy == IF coincide THEN FMul(100, FSub(r2, 500)) ELSE dy0
        distance == IF coincide THEN Hypot(dx, dy) ELSE distance0
    IN  <<FDiv(dx, distance), FDiv(dy, distance), distance>>

\* dvn: the relative velocity of e2 against e1 along the normal <<nx, ny>>
normalVelocity(e1, e2, nx, ny) ==
    FAdd(FMul(FSub(e2.VX, e1.VX), nx), FMul(FSub(e2.VY, e1.VY), ny))

\* relativeSpeed of resolveCollision
relativeSpeedOf(e1, e2) == Hypot(FSub(e2.VX, e1.VX), FSub(e2.VY, e1.VY))

MutApplyImpulseSameSign(d1, d2, v1, v2, impulse, nx, ny) ==
    <<SetVelocity(d1, FAdd(v1[1], FMul(impulse, nx)), FAdd(v1[2], FMul(impulse, ny))),
      SetVelocity(d2, FAdd(v2[1], FMul(impulse, nx)), FAdd(v2[2], FMul(impulse, ny)))>>

\* the last two statements of resolveCollision: the impulse is added to the
\* velocity v1 the first entity had on entry and subtracted from v2
applyImpulse(d1, d2, v1, v2, impulse, nx, ny) ==
    <<SetVelocity(d1, FAdd(v1[1], FMul(impulse, nx)), FAdd(v1[2], FMul(impulse, ny))),
      SetVelocity(d2, FSub(v2[1], FMul(impulse, nx)), FSub(v2[2], FMul(impulse, ny)))>>

\* resolveCollision(e1, e2) from the normalisation on, along the normal <<nx, ny>>.
\* The result is the pair of entities afterwards.
resolveAlong(p, e1, e2, nx, ny, distance) ==
    LET x1 == e1.X
        y1 == e1.Y
        x2 == e2.X
        y2 == e2.Y
        vx1 == e1.VX
        vy1 == e1.VY
        vx2 == e2.VX
        vy2 == e2.VY
        radius1 == FDiv(BoundsWidth(e1), 2000)
        radius2 == FDiv(BoundsWidth(e2), 2000)
        minDistance == FSub(FAdd(radius1, radius2), p.ContactTolerance)
        overlap == FSub(minDistance, distance)
        separationX == FMul(FMul(nx, overlap), SeparationFactor)
        separationY == FMul(FMul(ny, overlap), SeparationFactor)
        a1 == IF FGt(overlap, 0)
              THEN SetImmediatePosition(e1, FSub(x1, separationX), FSub(y1, separationY))
              ELSE e1
        a2 == IF FGt(overlap, 0)
              THEN SetImmediatePosition(e2, FAdd(x2, separationX), FAdd(y2, separationY))
              ELSE e2
        dvn == normalVelocity(e1, e2, nx, ny)
        relativeSpeed == relativeSpeedOf(e1, e2)
        slow == FLt(relativeSpeed, FMul(p.MinVelocity, 2000))
        d1 == IF slow
              THEN SetVelocity(a1, FMul(vx1, p.ContactDamping), FMul(vy1, p.ContactDamping))
              ELSE a1
        d2 == IF slow
              THEN SetVelocity(a2, FMul(vx2, p.ContactDamping), FMul(vy2, p.ContactDamping))
              ELSE a2
        impulse == FMul(FMul(FDiv(FMul(2000, dvn), 2000), p.Restitution), EnergyLoss)
    IN  IF FGt(dvn, 0) THEN <<a1, a2>>
        ELSE IF slow /\ FLt(relativeSpeed, p.MinVelocity)
        THEN <<SetVelocity(d1, 0, 0), SetVelocity(d2, 0, 0)>>
        ELSE applyImpulse(d1, d2, <<vx1, vy1>>, <<vx2, vy2>>, impulse, nx, ny)

resolveCollision(p, e1, e2, r1, r2) ==
    LET n == collisionNormal(e1, e2, r1, r2)
    IN  resolveAlong(p, e1, e2, n[1], n[2], n[3])

RECURSIVE ResolveAll(_, _, _, _, _, _)
ResolveAll(p, es, pairs, k, r1, r2) ==
    IF k > Len(pairs) THEN es
    ELSE LET i == pairs[k][1]
             j == pairs[k][2]
             res == resolveCollision(p, es[i], es[j], r1, r2)
         IN  ResolveAll(p, [es EXCEPT ![i] = res[1], ![j] = res[2]], pairs, k + 1, r1, r2)

\* HandleEntityCollisions: all pairs are found first, then resolved in order
HandleEntityCollisions(p, es, r1, r2) ==
    ResolveAll(p, es, findCollisions(p, es), 1, r1, r2)

SetGravity(p, gravity) ==
    IF IsInf(gravity) \/ IsNaN(gravity) THEN p ELSE [p EXCEPT !.Gravity = gravity]

\* SetRestitution that checks the upper end of the range only
MutSetRestitutionUpperOnly(p, restitution) ==
    IF FLe(restitution, 1000)
    THEN [p EXCEPT !.Restitution = restitution]
    ELSE p

SetRestitution(p, restitution) ==
    IF FGe(restitution, 0) /\ FLe(restitution, 1000)
    THEN [p EXCEPT !.Restitution = restitution]
    ELSE p

\* Pause that leaves the timestep alone
MutPauseKeepsTimestep(p) == p

Pause(p) == [p EXCEPT !.DeltaTime = 0]

Resume(p) == [p EXCEPT !.DeltaTime = DefaultDeltaTime]

IsRunning(p) == FGt(p.DeltaTime, 0)

\* AddRandomVelocity(entity, maxVelocity); r1 and r2 are the rand.Float64() values
AddRandomVelocity(e, maxVelocity, r1, r2) ==
    SetVelocity(e, FAdd(e.VX, FMul(FSub(r1, 500), maxVelocity)),
                   FAdd(e.VY, FMul(FSub(r2, 500), maxVelocity)))

----------------------------------------------------------------------------
(* the state after construction, and the history kept beside it *)

MaxEntities == 3
MaxOps == 4
IdRange == 2

EntityTypes == {SphereType, SpriteType}
IdPrefix(t) == IF t = SphereType THEN "sphere" ELSE "sprite"
EntityIDs == {generateID(IdPrefix(t), r1, r2) : t \in EntityTypes, r1 \in 0..(IdRange - 1), r2 \in 0..(IdRange - 1)}

DefaultEntityLimit == 50

\* initialModel(): the pane dimensions are unset until the first WindowSizeMsg
initialModel ==
    [termWidth |-> 0, termHeight |-> 0,
     simWidth |-> 0, simHeight |-> 0, ctrlWidth |-> 0, ctrlHeight |-> 0,
     paused |-> FALSE, ready |-> FALSE,
     selectedGravity |-> 25000, selectedEntitySize |-> 1,
     performanceMode |-> FALSE, maxEntityLimit |-> DefaultEntityLimit,
     pauseLabel |-> "Pause", panicked |-> FALSE]

NoRet == [ok |-> FALSE, n |-> 0]

HistInit == [op |-> "init", pre |-> <<>>, args |-> <<>>, trace |-> <<>>,
             adds |-> 0, removes |-> 0, clears |-> 0]

\* a new entity of type t at (x, y) with the ID the random source gives it
NewEntity(t, ptr, r1, r2, x, y, size) ==
    IF t = SphereType
    THEN NewSphere(ptr, generateID("sphere", r1, r2), x, y, size)
    ELSE NewSprite(ptr, generateID("sprite", r1, r2), x, y, size)

----------------------------------------------------------------------------
(* the registry called directly: AddEntity, RemoveEntity, Clear and the reads *)

StoredID(es, id) == \E i \in 1..Len(es) : es[i].ID = id

RegAddEntity ==
    \E t \in EntityTypes, r1 \in 0..(IdRange - 1), r2 \in 0..(IdRange - 1) :
        /\ steps < MaxOps
        /\ Len(em) < MaxEntities
        /\ em' = AddEntity(em, NewEntity(t, nextPtr, r1, r2, 0, 0, 1))
        /\ nextPtr' = nextPtr + 1
        /\ hist' = [hist EXCEPT !.op = "AddEntity", !.pre = em, !.args = <<>>, !.adds = @ + 1]
        /\ ret' = NoRet
        /\ steps' = steps + 1
        /\ UNCHANGED <<mu, gs, heap>>
        /\ UNCHANGED <<pe, m, snapshot>>

RegRemoveEntity ==
    \E id \in EntityIDs :
        /\ steps < MaxOps
        /\ em' = RemoveEntity(em, id).entities
        /\ ret' = [ok |-> RemoveEntity(em, id).ok, n |-> 0]
        /\ hist' = [hist EXCEPT !.op = "RemoveEntity", !.pre = em, !.args = <<id>>,
                                !.removes = IF StoredID(em, id) THEN @ + 1 ELSE @]
        /\ steps' = steps + 1
        /\ UNCHANGED <<mu, gs, heap>>
        /\ UNCHANGED <<pe, m, snapshot, nextPtr>>

RegClear ==
    /\ steps < MaxOps
    /\ em' = Clear(em)
    /\ ret' = NoRet
    /\ hist' = [hist EXCEPT !.op = "Clear", !.pre = em, !.args = <<>>, !.clears = @ + 1]
    /\ steps' = steps + 1
    /\ UNCHANGED <<mu, gs, heap>>
    /\ UNCHANGED <<pe, m, snapshot, nextPtr>>

RegGetEntities ==
    /\ steps < MaxOps
    /\ snapshot' = GetEntities(em)
    /\ ret' = NoRet
    /\ hist' = [hist EXCEPT !.op = "GetEntities", !.pre = em, !.args = <<>>]
    /\ steps' = steps + 1
    /\ UNCHANGED <<mu, gs, heap>>
    /\ UNCHANGED <<em, pe, m, nextPtr>>

RegCount ==
    /\ steps < MaxOps
    /\ ret' = [ok |-> TRUE, n |-> Count(em)]
    /\ hist' = [hist EXCEPT !.op = "Count", !.pre = em, !.args = <<>>]
    /\ steps' = steps + 1
    /\ UNCHANGED <<mu, gs, heap>>
    /\ UNCHANGED <<em, pe, m, snapshot, nextPtr>>

RegCountByType ==
    \E t \in EntityTypes :
        /\ steps < MaxOps
        /\ ret' = [ok |-> TRUE, n |-> CountByType(em, t)]
        /\ hist' = [hist EXCEPT !.op = "CountByType", !.pre = em, !.args = <<>>]
        /\ steps' = steps + 1
        /\ UNCHANGED <<mu, gs, heap>>
        /\ UNCHANGED <<em, pe, m, snapshot, nextPtr>>

InitRegistry ==
    /\ em = NewEntityManager
    /\ pe = NewPhysicsEngine(80000, 24000)
    /\ m = initialModel
    /\ snapshot = <<>>
    /\ ret = NoRet
    /\ hist = HistInit
    /\ nextPtr = 1
    /\ steps = 0
    /\ mu = NewRWMutex
    /\ gs = NoGoroutines
    /\ heap = NoHeap

NextRegistry ==
    \/ RegAddEntity
    \/ RegRemoveEntity
    \/ RegClear
    \/ RegGetEntities
    \/ RegCount
    \/ RegCountByType

SpecRegistry == InitRegistry /\ [][NextRegistry]_vars

\* C1: in an EntityManager that started empty and was never cleared, Count() is
\* the number of AddEntity calls minus the number of RemoveEntity calls made on
\* an ID stored at the time, and CountByType(sphere) + CountByType(sprite) is
\* Count().
C1_CountInvariant ==
    hist.clears = 0 =>
        /\ Count(em) = hist.adds - hist.removes
        /\ CountByType(em, SphereType) + CountByType(em, SpriteType) = Count(em)

C1_Witness ==
    /\ hist.clears = 0
    /\ hist.adds >= 3
    /\ hist.removes >= 1
    /\ CountByType(em, SphereType) >= 1
    /\ CountByType(em, SpriteType) >= 1

\* C15: RemoveEntity(id) returns true and removes exactly one stored entity
\* with that ID, keeping the rest in their order, when one is stored; otherwise
\* it returns false and leaves the collection unchanged.
C15_RemoveEntityResult ==
    hist.op = "RemoveEntity" =>
        IF StoredID(hist.pre, hist.args[1])
        THEN /\ ret.ok
             /\ \E i \in 1..Len(hist.pre) :
                    hist.pre[i].ID = hist.args[1] /\ em = RemoveAt(hist.pre, i)
        ELSE ~ret.ok /\ em = hist.pre

\* RemoveEntity was called with an ID that two of three stored entities had
C15_Witness ==
    /\ hist.op = "RemoveEntity"
    /\ ret.ok
    /\ Len(hist.pre) = 3
    /\ \E i \in 1..3 : \E j \in 1..3 :
           i # j /\ hist.pre[i].ID = hist.args[1] /\ hist.pre[j].ID = hist.args[1]

\* C16: any two entities created in one run by NewSphere / NewSprite have
\* different IDs, whatever the random source returns, so RemoveEntity(e.GetID())
\* can only remove e.
C16_IDsUnique ==
    \A i \in 1..Len(em) : \A j \in 1..Len(em) : i # j => em[i].ID # em[j].ID

\* an entity's ID never changes while it is stored
IDNeverChanges ==
    [][\A i \in 1..Len(em) : \A j \in 1..Len(em') :
           em[i].ptr = em'[j].ptr => em[i].ID = em'[j].ID]_vars

\* RemoveEntity on an ID that is not stored
RemoveMissingWitness ==
    hist.op = "RemoveEntity" /\ ~ret.ok /\ Len(hist.pre) >= 1

----------------------------------------------------------------------------
(* the public operations of one entity, with arbitrary float64 arguments, and
   the engine's tick over it *)

MaxEntityOps == 3

FloatArgs == {NaN, PosInf, NegInf, 0 - 3000, MaxFloat}
DeltaArgs == {0, DefaultDeltaTime, NaN, PosInf}

\* rand.Float64() lies in [0, 1)
RandFloats == {0, 500}

EntSetVelocity ==
    \E i \in 1..Len(em), vx \in FloatArgs, vy \in FloatArgs :
        /\ steps < MaxEntityOps
        /\ em' = [em EXCEPT ![i] = SetVelocity(@, vx, vy)]
        /\ hist' = [hist EXCEPT !.op = "SetVelocity", !.pre = em, !.args = <<i, vx, vy>>]
        /\ steps' = steps + 1
        /\ UNCHANGED <<mu, gs, heap>>
        /\ UNCHANGED <<pe, m, snapshot, ret, nextPtr>>

EntApplyForce ==
    \E i \in 1..Len(em), fx \in FloatArgs, fy \in FloatArgs :
        /\ steps < MaxEntityOps
        /\ em' = [em EXCEPT ![i] = ApplyForce(@, fx, fy)]
        /\ hist' = [hist EXCEPT !.op = "ApplyForce", !.pre = em, !.args = <<i, fx, fy>>]
        /\ steps' = steps + 1
        /\ UNCHANGED <<mu, gs, heap>>
        /\ UNCHANGED <<pe, m, snapshot, ret, nextPtr>>

EntUpdate ==
    \E i \in 1..Len(em), dt \in DeltaArgs :
        /\ steps < MaxEntityOps
        /\ em' = [em EXCEPT ![i] = Update(@, dt)]
        /\ hist' = [hist EXCEPT !.op = "Update", !.pre = em, !.args = <<i, dt>>]
        /\ steps' = steps + 1
        /\ UNCHANGED <<mu, gs, heap>>
        /\ UNCHANGED <<pe, m, snapshot, ret, nextPtr>>

\* the outcomes of the two rand.Float64() calls of resolveCollision(e1, e2),
\* which are made only when the centres coincide
PairDraws(e1, e2) ==
    IF FEq(Hypot(FSub(e2.X, e1.X), FSub(e2.Y, e1.Y)), 0)
    THEN RandFloats \X RandFloats
    ELSE {<<0, 0>>}

\* the outcomes of the random source that HandleEntityCollisions(es) can
\* tell apart: one when no resolution depends on it
CollisionDraws(p, es) ==
    IF /\ findCollisions(p, es) # <<>>
       /\ \E a \in RandFloats, b \in RandFloats :
              HandleEntityCollisions(p, es, a, b) # HandleEntityCollisions(p, es, 0, 0)
    THEN RandFloats \X RandFloats
    ELSE {<<0, 0>>}

\* one tick of the engine: ApplyPhysics, then HandleEntityCollisions
EngineTick ==
    /\ steps < MaxEntityOps
    /\ \E rs \in CollisionDraws(pe, ApplyPhysics(pe, em)) :
           /\ em' = HandleEntityCollisions(pe, ApplyPhysics(pe, em), rs[1], rs[2])
           /\ hist' = [hist EXCEPT !.op = "EngineTick", !.pre = em, !.args = rs]
           /\ steps' = steps + 1
           /\ UNCHANGED <<mu, gs, heap>>
           /\ UNCHANGED <<pe, m, snapshot, ret, nextPtr>>

InitEntity ==
    /\ \E t \in EntityTypes, size \in {0, 1, 3} :
           em = <<NewEntity(t, 1, 0, 0, 10000, 10000, size)>>
    /\ pe = NewPhysicsEngine(20000, 20000)
    /\ m = initialModel
    /\ snapshot = <<>>
    /\ ret = NoRet
    /\ hist = HistInit
    /\ nextPtr = 2
    /\ steps = 0
    /\ mu = NewRWMutex
    /\ gs = NoGoroutines
    /\ heap = NoHeap

NextEntity ==
    \/ EntSetVelocity
    \/ EntApplyForce
    \/ EntUpdate
    \/ EngineTick

SpecEntity == InitEntity /\ [][NextEntity]_vars

\* C2: after any sequence of SetVelocity, ApplyForce, Update and engine ticks
\* with arbitrary arguments, no velocity component of an entity is NaN or
\* infinite; SetVelocity stores 0 for a NaN or infinite argument and the other
\* argument as given.
C2_VelocityAlwaysFinite ==
    /\ \A i \in 1..Len(em) : IsFinite(em[i].VX) /\ IsFinite(em[i].VY)
    /\ hist.op = "SetVelocity" =>
           LET i == hist.args[1]
               vx == hist.args[2]
               vy == hist.args[3]
           IN  /\ em[i].VX = (IF IsFinite(vx) THEN vx ELSE 0)
               /\ em[i].VY = (IF IsFinite(vy) THEN vy ELSE 0)

\* the part of C2 that is about SetVelocity alone
SetVelocitySanitizes ==
    hist.op = "SetVelocity" =>
        LET i == hist.args[1]
            vx == hist.args[2]
            vy == hist.args[3]
        IN  /\ em[i].VX = (IF IsFinite(vx) THEN vx ELSE 0)
            /\ em[i].VY = (IF IsFinite(vy) THEN vy ELSE 0)

\* C17: every entity NewSphere / NewSprite creates, for any integer size
\* (negative, zero or positive), has mass > 0, so ApplyForce with a non-zero
\* (finite) force on an entity of finite velocity always changes its velocity.
C17_MassPositive ==
    /\ \A i \in 1..Len(em) : FGt(em[i].Mass, 0)
    /\ (/\ hist.op = "ApplyForce"
        /\ IsFinite(hist.args[2]) /\ IsFinite(hist.args[3])
        /\ IsFinite(hist.pre[hist.args[1]].VX) /\ IsFinite(hist.pre[hist.args[1]].VY))
       => \/ em[hist.args[1]].VX # hist.pre[hist.args[1]].VX
          \/ em[hist.args[1]].VY # hist.pre[hist.args[1]].VY

\* ApplyForce on a massless entity is ignored
MasslessIgnoresForce ==
    hist.op = "ApplyForce" /\ ~FGt(hist.pre[hist.args[1]].Mass, 0) => em = hist.pre

----------------------------------------------------------------------------
(* one entity between the four walls: ApplyPhysics ticks of an engine whose
   restitution the caller may change *)

MaxTicks == 2

\* NewPhysicsEngine(20, 20): the walls are at 1 and 18 on both axes
WallEngine == NewPhysicsEngine(20000, 20000)

HalfSize(e) == FDiv(FromInt(e.Size), 2000)

\* the coordinates that put the box of half-width half on the low wall, in the
\* middle, and on the high wall
WallCoords(half) == {FAdd(DefaultMin, half), 10000, FSub(FSub(20000, BoundsMargin), half)}

WallVelocities == {0 - 5000, 0 - 1000, 0, 1000, 5000}
RestitutionArgs == {300, 1000, 1500}

BoundaryApplyPhysics ==
    /\ steps < MaxTicks
    /\ em' = ApplyPhysics(pe, em)
    /\ hist' = [hist EXCEPT !.op = "ApplyPhysics", !.pre = em]
    /\ steps' = steps + 1
    /\ UNCHANGED <<mu, gs, heap>>
    /\ UNCHANGED <<pe, m, snapshot, ret, nextPtr>>

EngineSetRestitution ==
    \E r \in RestitutionArgs :
        /\ hist.op = "init"
        /\ pe' = SetRestitution(pe, r)
        /\ hist' = [hist EXCEPT !.op = "SetRestitution", !.args = <<r>>]
        /\ UNCHANGED <<em, m, snapshot, ret, nextPtr, steps, mu, gs, heap>>

InitBoundary ==
    /\ \E t \in EntityTypes, size \in {1, 2}, vx \in WallVelocities, vy \in WallVelocities :
         \E x \in WallCoords(FDiv(FromInt(size), 2000)), y \in WallCoords(FDiv(FromInt(size), 2000)) :
           em = <<SetVelocity(NewEntity(t, 1, 0, 0, x, y, size), vx, vy)>>
    /\ pe = WallEngine
    /\ m = initialModel
    /\ snapshot = <<>>
    /\ ret = NoRet
    /\ hist = HistInit
    /\ nextPtr = 2
    /\ steps = 0
    /\ mu = NewRWMutex
    /\ gs = NoGoroutines
    /\ heap = NoHeap

NextBoundary ==
    \/ BoundaryApplyPhysics
    \/ EngineSetRestitution

SpecBoundary == InitBoundary /\ [][NextBoundary]_vars

StrictlyInside(p, e) ==
    /\ FLt(p.MinX, e.X) /\ FLt(e.X, p.MaxX)
    /\ FLt(p.MinY, e.Y) /\ FLt(e.Y, p.MaxY)

AtLeftWall(p, e) == FSub(e.X, HalfSize(e)) = p.MinX /\ e.VX < 0
AtRightWall(p, e) == FAdd(e.X, HalfSize(e)) = p.MaxX /\ e.VX > 0
AtTopWall(p, e) == FSub(e.Y, HalfSize(e)) = p.MinY /\ e.VY < 0
AtBottomWall(p, e) == FAdd(e.Y, HalfSize(e)) = p.MaxY /\ e.VY > 0

\* the velocity component after is opposite in sign to the one before and not
\* larger than restitution times it
Reflected(p, before, after) ==
    /\ Sgn(after) = 0 - Sgn(before)
    /\ Abs(after) <= FMul(Abs(before), p.Restitution)

\* C3: an entity placed exactly at one of the four walls with its velocity
\* component normal to the wall directed into the wall is, after one
\* ApplyPhysics tick, strictly inside the bounds, with that component reversed
\* in sign and scaled by restitution.
C3_WallRoundTrip ==
    hist.op = "ApplyPhysics" =>
        \A i \in 1..Len(em) :
            LET b == hist.pre[i]
                a == em[i]
            IN  /\ AtLeftWall(pe, b) => StrictlyInside(pe, a) /\ Reflected(pe, b.VX, a.VX)
                /\ AtRightWall(pe, b) => StrictlyInside(pe, a) /\ Reflected(pe, b.VX, a.VX)
                /\ AtTopWall(pe, b) => StrictlyInside(pe, a) /\ Reflected(pe, b.VY, a.VY)
                /\ AtBottomWall(pe, b) => StrictlyInside(pe, a) /\ Reflected(pe, b.VY, a.VY)

\* the round trip away from the corners: the entity is on one wall and in the
\* middle of the field on the other axis, so only one branch of
\* handleBoundaryCollisions runs
WallRoundTripAwayFromCorners ==
    hist.op = "ApplyPhysics" =>
        \A i \in 1..Len(em) :
            LET b == hist.pre[i]
                a == em[i]
            IN  /\ AtLeftWall(pe, b) /\ b.Y = 10000 => StrictlyInside(pe, a) /\ Reflected(pe, b.VX, a.VX)
                /\ AtRightWall(pe, b) /\ b.Y = 10000 => StrictlyInside(pe, a) /\ Reflected(pe, b.VX, a.VX)
                /\ AtTopWall(pe, b) /\ b.X = 10000 => StrictlyInside(pe, a) /\ Sgn(a.VY) = 0 - Sgn(b.VY)
                /\ AtBottomWall(pe, b) /\ b.X = 10000 => StrictlyInside(pe, a) /\ Sgn(a.VY) = 0 - Sgn(b.VY)

----------------------------------------------------------------------------
(* two entities: collision detection and resolveCollision called directly *)

MaxResolves == 2

\* the centres of the second entity; the first one is at (10, 10)
SecondCentres == {<<10500, 10500>>, <<10600, 10000>>, <<20000, 20000>>, <<10000, 10000>>}
FirstVelocities == {<<5000, 0>>, <<40, 0>>, <<1000, 0>>}
SecondVelocities == {<<0 - 5000, 0>>, <<0 - 40, 0>>, <<980, 0>>, <<0, 0>>}

CollFindCollisions ==
    /\ hist.op # "findCollisions"
    /\ ret' = [ok |-> TRUE, n |-> Len(findCollisions(pe, em)), pairs |-> findCollisions(pe, em)]
    /\ hist' = [hist EXCEPT !.op = "findCollisions", !.pre = em]
    /\ UNCHANGED <<em, pe, m, snapshot, nextPtr, steps, mu, gs, heap>>

CollResolveCollision ==
    /\ steps < MaxResolves
    /\ \E rs \in PairDraws(em[1], em[2]) :
           /\ em' = resolveCollision(pe, em[1], em[2], rs[1], rs[2])
           /\ hist' = [hist EXCEPT !.op = "resolveCollision", !.pre = em, !.args = rs]
           /\ steps' = steps + 1
           /\ UNCHANGED <<mu, gs, heap>>
           /\ UNCHANGED <<pe, m, snapshot, ret, nextPtr>>

CollHandleEntityCollisions ==
    /\ steps < MaxResolves
    /\ \E rs \in CollisionDraws(pe, em) :
           /\ em' = HandleEntityCollisions(pe, em, rs[1], rs[2])
           /\ hist' = [hist EXCEPT !.op = "HandleEntityCollisions", !.pre = em, !.args = rs]
           /\ steps' = steps + 1
           /\ UNCHANGED <<mu, gs, heap>>
           /\ UNCHANGED <<pe, m, snapshot, ret, nextPtr>>

InitCollision ==
    /\ \E t \in EntityTypes, size \in {1, 2}, c \in SecondCentres,
          v1 \in FirstVelocities, v2 \in SecondVelocities :
           em = <<SetVelocity(NewEntity(t, 1, 0, 0, 10000, 10000, size), v1[1], v1[2]),
                  SetVelocity(NewEntity(t, 2, 0, 1, c[1], c[2], size), v2[1], v2[2])>>
    /\ pe = NewPhysicsEngine(100000, 50000)
    /\ m = initialModel
    /\ snapshot = <<>>
    /\ ret = NoRet
    /\ hist = HistInit
    /\ nextPtr = 3
    /\ steps = 0
    /\ mu = NewRWMutex
    /\ gs = NoGoroutines
    /\ heap = NoHeap

NextCollision ==
    \/ EngineSetRestitution
    \/ CollFindCollisions
    \/ CollResolveCollision
    \/ CollHandleEntityCollisions

SpecCollision == InitCollision /\ [][NextCollision]_vars

\* two spheres of the given size centred at (10, 10) and at c
SpheresAt(es, size, c) ==
    /\ Len(es) = 2
    /\ es[1].Type = SphereType /\ es[2].Type = SphereType
    /\ es[1].Size = size /\ es[2].Size = size
    /\ es[1].X = 10000 /\ es[1].Y = 10000
    /\ es[2].X = c[1] /\ es[2].Y = c[2]

DefaultTolerance == pe.ContactTolerance = DefaultContactTolerance

ResolvedNormal == collisionNormal(hist.pre[1], hist.pre[2], hist.args[1], hist.args[2])

\* resolveCollision has just handled a pair with overlapping circles and
\* approaching velocities
HandledApproaching ==
    /\ hist.op = "resolveCollision"
    /\ checkEntityCollision(pe, hist.pre[1], hist.pre[2])
    /\ FLt(normalVelocity(hist.pre[1], hist.pre[2], ResolvedNormal[1], ResolvedNormal[2]), 0)

EqualAndOpposite ==
    /\ FSub(em[1].VX, hist.pre[1].VX) = FNeg(FSub(em[2].VX, hist.pre[2].VX))
    /\ FSub(em[1].VY, hist.pre[1].VY) = FNeg(FSub(em[2].VY, hist.pre[2].VY))
    /\ FAdd(em[1].VX, em[2].VX) = FAdd(hist.pre[1].VX, hist.pre[2].VX)
    /\ FAdd(em[1].VY, em[2].VY) = FAdd(hist.pre[1].VY, hist.pre[2].VY)

\* C6 (as stated): for every pair with overlapping circles and approaching
\* velocities that resolveCollision handles, the velocity change of the first
\* entity is the negative of that of the second, so the sum of the two
\* velocities is the same before and after.
C6_EqualOppositeAlways == HandledApproaching => EqualAndOpposite

\* C6 (amended): for a handled pair with overlapping circles and approaching
\* velocities whose relative speed is at least MinVelocity, the velocity change
\* of the first entity is the negative of that of the second and the sum of
\* the velocities is preserved; when the relative speed is below MinVelocity
\* both velocities are set to zero instead.
C6_EqualOppositeAboveRest ==
    HandledApproaching =>
        IF FGe(relativeSpeedOf(hist.pre[1], hist.pre[2]), pe.MinVelocity)
        THEN EqualAndOpposite
        ELSE \A i \in 1..2 : em[i].VX = 0 /\ em[i].VY = 0

C6_Witness ==
    /\ HandledApproaching
    /\ FGe(relativeSpeedOf(hist.pre[1], hist.pre[2]), pe.MinVelocity)
    /\ em[1].VX # hist.pre[1].VX
    /\ hist.pre[2].Y # hist.pre[1].Y

\* C7: after resolveCollision has handled a pair with overlapping circles and
\* approaching velocities, for any restitution in [0,1], the pair's relative
\* velocity along the same normal is no longer approaching, and an immediate
\* second resolution of the pair changes no velocity (no damping, no impulse).
C7_SeparatingAfterResolution ==
    HandledApproaching =>
        /\ ~FLt(normalVelocity(em[1], em[2], ResolvedNormal[1], ResolvedNormal[2]), 0)
        /\ \A r1 \in RandFloats, r2 \in RandFloats :
               LET again == resolveCollision(pe, em[1], em[2], r1, r2)
               IN  \A i \in 1..2 : again[i].VX = em[i].VX /\ again[i].VY = em[i].VY

\* C8: when an approaching pair's relative speed is below 2 * MinVelocity but
\* not below MinVelocity, resolveCollision leaves each entity with its
\* pre-collision velocity multiplied by ContactDamping (no impulse).
C8_DampingOnlyWhenSlow ==
    /\ HandledApproaching
    /\ FGe(relativeSpeedOf(hist.pre[1], hist.pre[2]), pe.MinVelocity)
    /\ FLt(relativeSpeedOf(hist.pre[1], hist.pre[2]), FMul(pe.MinVelocity, 2000))
    => \A i \in 1..2 :
           /\ em[i].VX = FMul(hist.pre[i].VX, pe.ContactDamping)
           /\ em[i].VY = FMul(hist.pre[i].VY, pe.ContactDamping)

----------------------------------------------------------------------------
(* two entities that start inside the bounds: whole ticks of the engine *)

TickVelocities == {<<0, 0>>, <<2000, 0>>, <<0 - 2000, 0>>}

BoxInside(p, e) ==
    /\ FLe(p.MinX, FSub(e.X, HalfSize(e)))
    /\ FLe(FAdd(e.X, HalfSize(e)), p.MaxX)
    /\ FLe(p.MinY, FSub(e.Y, HalfSize(e)))
    /\ FLe(FAdd(e.Y, HalfSize(e)), p.MaxY)

InitTicks ==
    /\ \E t \in EntityTypes, x1 \in {1500, 10000}, x2 \in {1900, 10400, 17500},
          y \in {10000, 17500}, v1 \in TickVelocities, v2 \in TickVelocities :
           em = <<SetVelocity(NewEntity(t, 1, 0, 0, x1, y, 1), v1[1], v1[2]),
                  SetVelocity(NewEntity(t, 2, 0, 1, x2, y, 1), v2[1], v2[2])>>
    /\ pe = WallEngine
    /\ \A i \in 1..Len(em) : BoxInside(pe, em[i])
    /\ m = initialModel
    /\ snapshot = <<>>
    /\ ret = NoRet
    /\ hist = HistInit
    /\ nextPtr = 3
    /\ steps = 0
    /\ mu = NewRWMutex
    /\ gs = NoGoroutines
    /\ heap = NoHeap

EnginePause ==
    /\ IsRunning(pe)
    /\ pe' = Pause(pe)
    /\ hist' = [hist EXCEPT !.op = "Pause", !.pre = <<>>, !.args = <<>>]
    /\ UNCHANGED <<em, m, snapshot, ret, nextPtr, steps, mu, gs, heap>>

EngineResume ==
    /\ ~IsRunning(pe)
    /\ pe' = Resume(pe)
    /\ hist' = [hist EXCEPT !.op = "Resume", !.pre = <<>>, !.args = <<>>]
    /\ UNCHANGED <<em, m, snapshot, ret, nextPtr, steps, mu, gs, heap>>

NextTicks ==
    \/ EngineTick
    \/ EnginePause
    \/ EngineResume

SpecTicks == InitTicks /\ [][NextTicks]_vars

\* C4: after every tick (ApplyPhysics followed by HandleEntityCollisions) each
\* entity's box of half-width size/2 around its physics position lies inside
\* the bounds.
C4_BoxInsideAfterTick ==
    hist.op = "EngineTick" => \A i \in 1..Len(em) : BoxInside(pe, em[i])

\* ApplyPhysics alone leaves the box of the entity inside the bounds
BoxInsideAfterApplyPhysics ==
    hist.op = "ApplyPhysics" => \A i \in 1..Len(em) : BoxInside(pe, em[i])

----------------------------------------------------------------------------
(* the application: Model.Update on the messages of the program *)

MaxMsgs == 5
MaxAppEntities == 2

\* the terminal sizes a WindowSizeMsg carries
WindowSizes == {<<80, 24>>, <<30, 12>>}

\* simRatio of updatePaneDimensions, in percent
simRatioPct(usableHeight) ==
    IF usableHeight <= 20 THEN 95
    ELSE IF usableHeight <= 25 THEN 92
    ELSE IF usableHeight <= 35 THEN 88
    ELSE IF usableHeight <= 45 THEN 85
    ELSE 82

minControlHeightOf(usableHeight) ==
    IF usableHeight <= 25 THEN 2
    ELSE IF usableHeight <= 35 THEN 3
    ELSE IF usableHeight <= 45 THEN 4
    ELSE 5

\* updatePaneDimensions; int(float64(usableHeight) * simRatio) is the integer
\* part of usableHeight * percent / 100 for the heights of WindowSizes
updatePaneDimensions(mm) ==
    LET usableWidth == IF mm.termWidth - 6 < 20 THEN 20 ELSE mm.termWidth - 6
        usableHeight == IF mm.termHeight - 8 < 10 THEN 10 ELSE mm.termHeight - 8
        calc == (usableHeight * simRatioPct(usableHeight)) \div 100
        simHeightCalc == IF calc < 6 THEN 6 ELSE calc
        minControlHeight == minControlHeightOf(usableHeight)
        tooLow == usableHeight - simHeightCalc < minControlHeight
    IN  [mm EXCEPT !.simHeight = IF tooLow THEN usableHeight - minControlHeight ELSE simHeightCalc,
                   !.ctrlHeight = IF tooLow THEN minControlHeight ELSE usableHeight - simHeightCalc,
                   !.simWidth = usableWidth,
                   !.ctrlWidth = usableWidth]

ResizeDamping == 700

\* the body of the loop of handleBoundaryResize
handleBoundaryResize(e, maxWidth, maxHeight) ==
    LET x == e.X
        y == e.Y
        vx == e.VX
        vy == e.VY
        right == FGe(x, FSub(maxWidth, 1000))
        left == ~right /\ FLt(x, 0)
        below == FGe(y, FSub(maxHeight, 1000))
        above == ~below /\ FLt(y, 0)
        newX == IF right THEN FSub(maxWidth, 1500) ELSE IF left THEN 500 ELSE x
        newY == IF below THEN FSub(maxHeight, 1500) ELSE IF above THEN 500 ELSE y
        newVX == IF right /\ FGt(vx, 0) THEN FMul(FNeg(FAbs(vx)), ResizeDamping)
                 ELSE IF left /\ FLt(vx, 0) THEN FMul(FAbs(vx), ResizeDamping)
                 ELSE vx
        newVY == IF below /\ FGt(vy, 0) THEN FMul(FNeg(FAbs(vy)), ResizeDamping)
                 ELSE IF above /\ FLt(vy, 0) THEN FMul(FAbs(vy), ResizeDamping)
                 ELSE vy
        moved == IF FNe(newX, x) \/ FNe(newY, y) THEN SetImmediatePosition(e, newX, newY) ELSE e
    IN  IF FNe(newVX, vx) \/ FNe(newVY, vy) THEN SetVelocity(moved, newVX, newVY) ELSE moved

gravityLevels == <<0, 10000, 25000, 50000>>
entitySizes == <<1, 2, 3, 4>>

\* the element after the first occurrence of v in levels, cyclically; the
\* first element when v does not occur
NextLevel(levels, v) ==
    LET at == {i \in 1..Len(levels) : levels[i] = v}
    IN  IF at = {} THEN levels[1]
        ELSE levels[((CHOOSE i \in at : \A j \in at : i <= j) % Len(levels)) + 1]

\* the restitution the bounce key sets after currentBounce
NextBounce(currentBounce) ==
    IF FLe(currentBounce, 100) THEN 300
    ELSE IF FLe(currentBounce, 300) THEN 700
    ELSE IF FLe(currentBounce, 700) THEN 1000
    ELSE 100

\* the outcomes of the random source when one entity is added:
\* <<whether rand.Intn(simWidth-4) is its largest value, rand.Intn(3), the
\*   second number of generateID, the two rand.Float64() of AddRandomVelocity>>
AddDraws == {<<FALSE, 0, 0, 0, 0>>, <<TRUE, 2, 1, 999, 500>>}

MutTickIgnoresPause(mm, p, es, r1, r2) ==
    IF mm.ready
    THEN LET moved == HandleEntityCollisions(p, ApplyPhysics(p, es), r1, r2)
         IN  [entities |-> [i \in 1..Len(es) |-> UpdateAnimation(moved[i])],
              trace |-> <<(<<"ApplyPhysics", 0>>), (<<"HandleEntityCollisions", 0>>)>>
                        \o [i \in 1..Len(es) |-> <<"UpdateAnimation", es[i].ptr>>]]
    ELSE [entities |-> es, trace |-> <<>>]

MutTickAnimatesWhenRunning(mm, p, es, r1, r2) ==
    IF mm.ready /\ ~mm.paused
    THEN LET moved == HandleEntityCollisions(p, ApplyPhysics(p, es), r1, r2)
         IN  [entities |-> [i \in 1..Len(es) |-> UpdateAnimation(moved[i])],
              trace |-> <<(<<"ApplyPhysics", 0>>), (<<"HandleEntityCollisions", 0>>)>>
                        \o [i \in 1..Len(es) |-> <<"UpdateAnimation", es[i].ptr>>]]
    ELSE [entities |-> es, trace |-> <<>>]

\* the tickMsg case of Update on the entities es: the entities afterwards and
\* the calls made, in order; r1 and r2 are the values of rand.Float64()
tickMsgStep(mm, p, es, r1, r2) ==
    IF mm.ready
    THEN LET moved == IF ~mm.paused
                      THEN HandleEntityCollisions(p, ApplyPhysics(p, es), r1, r2)
                      ELSE es
         IN  [entities |-> [i \in 1..Len(es) |-> UpdateAnimation(moved[i])],
              trace |-> (IF ~mm.paused
                         THEN <<(<<"ApplyPhysics", 0>>), (<<"HandleEntityCollisions", 0>>)>>
                         ELSE <<>>)
                        \o [i \in 1..Len(es) |-> <<"UpdateAnimation", es[i].ptr>>]]
    ELSE [entities |-> es, trace |-> <<>>]

Running == ~m.panicked /\ steps < MaxMsgs

WindowSizeMsg ==
    \E ws \in WindowSizes :
        /\ Running
        /\ LET sized == updatePaneDimensions([m EXCEPT !.termWidth = ws[1], !.termHeight = ws[2]])
               width == FromInt(sized.simWidth)
               renderGridHeight == FromInt(sized.simHeight - 8)
           IN  /\ m' = [sized EXCEPT !.ready = TRUE]
               /\ pe' = UpdateBounds(pe, width, renderGridHeight)
               /\ em' = [i \in 1..Len(em) |->
                            UpdateAnimation(handleBoundaryResize(em[i], width, renderGridHeight))]
        /\ hist' = [hist EXCEPT !.op = "WindowSizeMsg", !.pre = em, !.args = ws, !.trace = <<>>]
        /\ steps' = steps + 1
        /\ UNCHANGED <<mu, gs, heap>>
        /\ UNCHANGED <<snapshot, ret, nextPtr>>

\* the outcomes of the random source a tick can tell apart
TickDraws ==
    IF m.ready /\ ~m.paused THEN CollisionDraws(pe, ApplyPhysics(pe, em)) ELSE {<<0, 0>>}

tickMsg ==
    /\ Running
    /\ \E rs \in TickDraws :
           /\ em' = tickMsgStep(m, pe, em, rs[1], rs[2]).entities
           /\ hist' = [hist EXCEPT !.op = "tickMsg", !.pre = em, !.args = rs,
                                    !.trace = tickMsgStep(m, pe, em, rs[1], rs[2]).trace]
           /\ steps' = steps + 1
           /\ UNCHANGED <<mu, gs, heap>>
           /\ UNCHANGED <<pe, m, snapshot, ret, nextPtr>>

\* the "a" and "s" keys and the Add Sphere and Add Sprite buttons:
\* rand.Intn(n) panics when n <= 0
addEntity(t) ==
    \E d \in AddDraws :
        /\ Running
        /\ IF Count(em) < m.maxEntityLimit
           THEN IF m.simWidth - 4 <= 0
                THEN /\ m' = [m EXCEPT !.panicked = TRUE]
                     /\ UNCHANGED <<em, nextPtr>>
                ELSE /\ Len(em) < MaxAppEntities
                     /\ LET x == FromInt((IF d[1] THEN m.simWidth - 5 ELSE 0) + 2)
                            y == FromInt(2 + d[2])
                            e == NewEntity(t, nextPtr, 0, d[3], x, y, m.selectedEntitySize)
                        IN  em' = AddEntity(em, AddRandomVelocity(e, 5000, d[4], d[5]))
                     /\ nextPtr' = nextPtr + 1
                     /\ UNCHANGED m
           ELSE UNCHANGED <<em, m, nextPtr>>
        /\ hist' = [hist EXCEPT !.op = "addEntity", !.pre = <<>>, !.args = <<>>, !.trace = <<>>]
        /\ steps' = steps + 1
        /\ UNCHANGED <<mu, gs, heap>>
        /\ UNCHANGED <<pe, snapshot, ret>>

\* the "c" key and the Clear button
clearAll ==
    /\ Running
    /\ em' = Clear(em)
    /\ hist' = [hist EXCEPT !.op = "clearAll", !.pre = <<>>, !.args = <<>>, !.trace = <<>>]
    /\ steps' = steps + 1
    /\ UNCHANGED <<mu, gs, heap>>
    /\ UNCHANGED <<pe, m, snapshot, ret, nextPtr>>

\* the "p" key and the Pause button
togglePause ==
    /\ Running
    /\ m' = [m EXCEPT !.paused = ~m.paused,
                      !.pauseLabel = IF ~m.paused THEN "Resume" ELSE "Pause"]
    /\ pe' = IF ~m.paused THEN Pause(pe) ELSE Resume(pe)
    /\ hist' = [hist EXCEPT !.op = "togglePause", !.pre = <<>>, !.args = <<>>, !.trace = <<>>]
    /\ steps' = steps + 1
    /\ UNCHANGED <<mu, gs, heap>>
    /\ UNCHANGED <<em, snapshot, ret, nextPtr>>

\* the "r" key and the Reset button
reset ==
    /\ Running
    /\ em' = Clear(em)
    /\ m' = [m EXCEPT !.paused = FALSE, !.pauseLabel = "Pause"]
    /\ pe' = Resume(pe)
    /\ hist' = [hist EXCEPT !.op = "reset", !.pre = <<>>, !.args = <<>>, !.trace = <<>>]
    /\ steps' = steps + 1
    /\ UNCHANGED <<mu, gs, heap>>
    /\ UNCHANGED <<snapshot, ret, nextPtr>>

\* the "g" key and the Gravity button
cycleGravity ==
    /\ Running
    /\ m' = [m EXCEPT !.selectedGravity = NextLevel(gravityLevels, m.selectedGravity)]
    /\ pe' = SetGravity(pe, NextLevel(gravityLevels, m.selectedGravity))
    /\ hist' = [hist EXCEPT !.op = "cycleGravity", !.pre = <<>>, !.args = <<>>, !.trace = <<>>]
    /\ steps' = steps + 1
    /\ UNCHANGED <<mu, gs, heap>>
    /\ UNCHANGED <<em, snapshot, ret, nextPtr>>

\* the "b" key and the Bounce button
cycleBounce ==
    /\ Running
    /\ pe' = SetRestitution(pe, NextBounce(pe.Restitution))
    /\ hist' = [hist EXCEPT !.op = "cycleBounce", !.pre = <<>>, !.args = <<>>, !.trace = <<>>]
    /\ steps' = steps + 1
    /\ UNCHANGED <<mu, gs, heap>>
    /\ UNCHANGED <<em, m, snapshot, ret, nextPtr>>

\* the "z" key and the Size button
cycleEntitySize ==
    /\ Running
    /\ m' = [m EXCEPT !.selectedEntitySize = NextLevel(entitySizes, m.selectedEntitySize)]
    /\ hist' = [hist EXCEPT !.op = "cycleEntitySize", !.pre = <<>>, !.args = <<>>, !.trace = <<>>]
    /\ steps' = steps + 1
    /\ UNCHANGED <<mu, gs, heap>>
    /\ UNCHANGED <<em, pe, snapshot, ret, nextPtr>>

\* the "f" key
togglePerformanceMode ==
    /\ Running
    /\ m' = [m EXCEPT !.performanceMode = ~m.performanceMode,
                      !.maxEntityLimit = IF ~m.performanceMode /\ m.maxEntityLimit < 1000
                                         THEN 1000 ELSE m.maxEntityLimit]
    /\ hist' = [hist EXCEPT !.op = "togglePerformanceMode", !.pre = <<>>, !.args = <<>>, !.trace = <<>>]
    /\ steps' = steps + 1
    /\ UNCHANGED <<mu, gs, heap>>
    /\ UNCHANGED <<em, pe, snapshot, ret, nextPtr>>

\* the "l" key
toggleEntityLimit ==
    /\ Running
    /\ m' = [m EXCEPT !.maxEntityLimit = IF m.maxEntityLimit = 50 THEN 200
                                         ELSE IF m.maxEntityLimit = 200 THEN 1000
                                         ELSE DefaultEntityLimit]
    /\ hist' = [hist EXCEPT !.op = "toggleEntityLimit", !.pre = <<>>, !.args = <<>>, !.trace = <<>>]
    /\ steps' = steps + 1
    /\ UNCHANGED <<mu, gs, heap>>
    /\ UNCHANGED <<em, pe, snapshot, ret, nextPtr>>

\* the key messages of Update
KeyMsg ==
    \/ addEntity(SphereType)
    \/ addEntity(SpriteType)
    \/ clearAll
    \/ togglePause
    \/ reset
    \/ cycleGravity
    \/ cycleBounce
    \/ cycleEntitySize
    \/ togglePerformanceMode
    \/ toggleEntityLimit

\* handleButtonAction: the buttons run the statements of the keys
ButtonMsg ==
    \/ addEntity(SphereType)
    \/ addEntity(SpriteType)
    \/ clearAll
    \/ togglePause
    \/ reset
    \/ cycleGravity
    \/ cycleBounce
    \/ cycleEntitySize

Init ==
    /\ em = NewEntityManager
    /\ pe = NewPhysicsEngine(80000, 24000)
    /\ m = initialModel
    /\ snapshot = <<>>
    /\ ret = NoRet
    /\ hist = HistInit
    /\ nextPtr = 1
    /\ steps = 0
    /\ mu = NewRWMutex
    /\ gs = NoGoroutines
    /\ heap = NoHeap

Next ==
    \/ WindowSizeMsg
    \/ tickMsg
    \/ KeyMsg
    \/ ButtonMsg

Spec == Init /\ [][Next]_vars

\* C9: while the simulation is paused, handling a tick message leaves the
\* physics position and the velocity of every entity unchanged.
C9_PausedTickFreezesPhysics ==
    hist.op = "tickMsg" /\ m.paused =>
        /\ Len(em) = Len(hist.pre)
        /\ \A i \in 1..Len(em) :
               /\ em[i].ptr = hist.pre[i].ptr
               /\ em[i].X = hist.pre[i].X /\ em[i].Y = hist.pre[i].Y
               /\ em[i].VX = hist.pre[i].VX /\ em[i].VY = hist.pre[i].VY

C9_Witness ==
    /\ hist.op = "tickMsg" /\ m.paused /\ m.ready
    /\ Len(em) >= 1
    /\ em[1].VX # 0 /\ em[1].VY # 0

\* the entities a tick leaves when physics ran (or not) and then
\* UpdateAnimation ran once on each
AnimatedAfterPhysics ==
    LET moved == IF m.paused THEN hist.pre
                 ELSE HandleEntityCollisions(pe, ApplyPhysics(pe, hist.pre), hist.args[1], hist.args[2])
    IN  [i \in 1..Len(hist.pre) |-> UpdateAnimation(moved[i])]

\* C10: on every tick UpdateAnimation runs exactly once for every entity in the
\* registry, after the physics step of that tick, whether or not physics is
\* paused.
C10_AnimationOnEveryTick ==
    hist.op = "tickMsg" =>
        /\ \A i \in 1..Len(hist.pre) :
               Cardinality({k \in 1..Len(hist.trace) :
                               hist.trace[k] = <<"UpdateAnimation", hist.pre[i].ptr>>}) = 1
        /\ \A j, k \in 1..Len(hist.trace) :
               hist.trace[j][1] = "UpdateAnimation" /\ hist.trace[k][1] # "UpdateAnimation" => k < j
        /\ (\E k \in 1..Len(hist.trace) : hist.trace[k][1] = "ApplyPhysics") <=> (m.ready /\ ~m.paused)
        /\ em = AnimatedAfterPhysics

C10_Witness ==
    /\ hist.op = "tickMsg" /\ m.paused /\ m.ready
    /\ Len(em) >= 1
    /\ hist.trace = <<(<<"UpdateAnimation", em[1].ptr>>)>>
    /\ em[1].AnimationState # hist.pre[1].AnimationState

\* until the first WindowSizeMsg the registry is empty: adding an entity
\* panics in rand.Intn while simWidth is 0
RegistryEmptyUntilReady == ~m.ready => em = <<>>

\* the circles of e1 and e2 (GetBounds width / 2 around the centre) do not overlap
Apart(e1, e2) ==
    FGe(Hypot(FSub(e2.X, e1.X), FSub(e2.Y, e1.Y)),
        FAdd(FDiv(BoundsWidth(e1), 2000), FDiv(BoundsWidth(e2), 2000)))

\* the engine is paused and no two of the entities es overlap
PausedApart(es) ==
    /\ ~IsRunning(pe)
    /\ \A i \in 1..Len(es) : \A j \in 1..Len(es) : i < j => Apart(es[i], es[j])

\* C11: after Pause() and before Resume(), ApplyPhysics followed by
\* HandleEntityCollisions on entities that do not overlap changes neither the
\* physics position nor the velocity of any entity.
C11_PausedEngineFreezes ==
    hist.op = "EngineTick" /\ PausedApart(hist.pre) =>
        \A i \in 1..Len(em) :
            /\ em[i].X = hist.pre[i].X /\ em[i].Y = hist.pre[i].Y
            /\ em[i].VX = hist.pre[i].VX /\ em[i].VY = hist.pre[i].VY

\* the zero timestep does keep the physics positions
PausedEngineKeepsPositions ==
    hist.op = "EngineTick" /\ PausedApart(hist.pre) =>
        \A i \in 1..Len(em) : em[i].X = hist.pre[i].X /\ em[i].Y = hist.pre[i].Y

----------------------------------------------------------------------------
(* the registry called from several goroutines: every call is two steps, the
   entry (taking the lock the method takes, and reading em.entities) and the
   return (the method's effect, and the deferred unlock) *)

MaxGoroutines == 2
MaxCalls == 4

Goroutines == 1..MaxGoroutines

ReadOps == {"GetEntities", "GetEntitiesByType", "Count", "CountByType"}
WriteOps == {"AddEntity", "RemoveEntity", "Clear"}

\* a Lock that never waits
MutCanLockNeverWaits(mx) == TRUE

\* sync.RWMutex: Lock waits until nobody holds the mutex, RLock until no writer does
CanLock(mx) == mx.writer = 0 /\ mx.readers = {}

CanRLock(mx) == mx.writer = 0

Lock(mx, g) == [mx EXCEPT !.writer = g]
Unlock(mx, g) == [mx EXCEPT !.writer = 0]
RLock(mx, g) == [mx EXCEPT !.readers = @ \cup {g}]
RUnlock(mx, g) == [mx EXCEPT !.readers = @ \ {g}]

\* a goroutine outside every call
Idle == [op |-> "idle", pc |-> "idle", arg |-> <<>>, local |-> <<>>]

StartGoroutines == [g \in Goroutines |-> Idle]

Inside(g, op) == gs[g].pc = "body" /\ gs[g].op = op

\* goroutine g enters op: the mutex becomes mx, and g reads em.entities
Enter(g, op, arg, mx) ==
    /\ mu' = mx
    /\ gs' = [gs EXCEPT ![g] = [op |-> op, pc |-> "body", arg |-> arg, local |-> em]]
    /\ steps' = steps + 1
    /\ UNCHANGED <<em, pe, m, snapshot, ret, hist, heap>>

\* goroutine g returns from op: the mutex becomes mx
Leave(g, op, mx) ==
    /\ mu' = mx
    /\ gs' = [gs EXCEPT ![g] = Idle]
    /\ UNCHANGED <<pe, m, nextPtr, steps, heap>>

AddEntityLock ==
    \E g \in Goroutines :
        /\ steps < MaxCalls
        /\ gs[g].pc = "idle"
        /\ CanLock(mu)
        /\ \E t \in EntityTypes, r1 \in 0..(IdRange - 1) :
               Enter(g, "AddEntity", NewEntity(t, nextPtr, r1, 0, 0, 0, 1), Lock(mu, g))
        /\ nextPtr' = nextPtr + 1

AddEntityUnlock ==
    \E g \in Goroutines :
        /\ Inside(g, "AddEntity")
        /\ em' = AddEntity(gs[g].local, gs[g].arg)
        /\ ret' = NoRet
        /\ hist' = [hist EXCEPT !.op = "AddEntity", !.pre = gs[g].local, !.adds = @ + 1]
        /\ Leave(g, "AddEntity", Unlock(mu, g))
        /\ UNCHANGED snapshot

RemoveEntityLock ==
    \E g \in Goroutines :
        /\ steps < MaxCalls
        /\ gs[g].pc = "idle"
        /\ CanLock(mu)
        /\ \E t \in EntityTypes, r1 \in 0..(IdRange - 1) :
               Enter(g, "RemoveEntity", generateID(IdPrefix(t), r1, 0), Lock(mu, g))
        /\ UNCHANGED nextPtr

RemoveEntityUnlock ==
    \E g \in Goroutines :
        /\ Inside(g, "RemoveEntity")
        /\ em' = RemoveEntity(gs[g].local, gs[g].arg).entities
        /\ ret' = [ok |-> RemoveEntity(gs[g].local, gs[g].arg).ok, n |-> 0]
        /\ hist' = [hist EXCEPT !.op = "RemoveEntity", !.pre = gs[g].local,
                                !.removes = IF StoredID(gs[g].local, gs[g].arg) THEN @ + 1 ELSE @]
        /\ Leave(g, "RemoveEntity", Unlock(mu, g))
        /\ UNCHANGED snapshot

ClearLock ==
    \E g \in Goroutines :
        /\ steps < MaxCalls
        /\ gs[g].pc = "idle"
        /\ CanLock(mu)
        /\ Enter(g, "Clear", <<>>, Lock(mu, g))
        /\ UNCHANGED nextPtr

ClearUnlock ==
    \E g \in Goroutines :
        /\ Inside(g, "Clear")
        /\ em' = Clear(gs[g].local)
        /\ ret' = NoRet
        /\ hist' = [hist EXCEPT !.op = "Clear", !.pre = gs[g].local, !.clears = @ + 1]
        /\ Leave(g, "Clear", Unlock(mu, g))
        /\ UNCHANGED snapshot

GetEntitiesRLock ==
    \E g \in Goroutines :
        /\ steps < MaxCalls
        /\ gs[g].pc = "idle"
        /\ CanRLock(mu)
        /\ Enter(g, "GetEntities", <<>>, RLock(mu, g))
        /\ UNCHANGED nextPtr

GetEntitiesRUnlock ==
    \E g \in Goroutines :
        /\ Inside(g, "GetEntities")
        /\ snapshot' = GetEntities(gs[g].local)
        /\ ret' = NoRet
        /\ hist' = [hist EXCEPT !.op = "GetEntities", !.pre = gs[g].local]
        /\ Leave(g, "GetEntities", RUnlock(mu, g))
        /\ UNCHANGED em

CountRLock ==
    \E g \in Goroutines :
        /\ steps < MaxCalls
        /\ gs[g].pc = "idle"
        /\ CanRLock(mu)
        /\ Enter(g, "Count", <<>>, RLock(mu, g))
        /\ UNCHANGED nextPtr

CountRUnlock ==
    \E g \in Goroutines :
        /\ Inside(g, "Count")
        /\ ret' = [ok |-> TRUE, n |-> Count(gs[g].local)]
        /\ hist' = [hist EXCEPT !.op = "Count", !.pre = gs[g].local]
        /\ Leave(g, "Count", RUnlock(mu, g))
        /\ UNCHANGED <<em, snapshot>>

CountByTypeRLock ==
    \E g \in Goroutines :
        /\ steps < MaxCalls
        /\ gs[g].pc = "idle"
        /\ CanRLock(mu)
        /\ \E t \in EntityTypes : Enter(g, "CountByType", t, RLock(mu, g))
        /\ UNCHANGED nextPtr

CountByTypeRUnlock ==
    \E g \in Goroutines :
        /\ Inside(g, "CountByType")
        /\ ret' = [ok |-> TRUE, n |-> CountByType(gs[g].local, gs[g].arg)]
        /\ hist' = [hist EXCEPT !.op = "CountByType", !.pre = gs[g].local]
        /\ Leave(g, "CountByType", RUnlock(mu, g))
        /\ UNCHANGED <<em, snapshot>>

\* what a range over em.entities that began on the slice local can read while
\* writers run unsynchronised: each element as it was when the range began, or
\* as the writes have left that place of the slice since
TornReads(local, es) ==
    {v \in [1..Len(local) -> {local[i] : i \in 1..Len(local)} \cup {es[i] : i \in 1..Len(es)}] :
        \A i \in 1..Len(local) : v[i] = local[i] \/ (i <= Len(es) /\ v[i] = es[i])}

\* GetEntitiesByType takes no lock: the range statement reads em.entities
GetEntitiesByTypeRange ==
    \E g \in Goroutines :
        /\ steps < MaxCalls
        /\ gs[g].pc = "idle"
        /\ \E t \in EntityTypes : Enter(g, "GetEntitiesByType", t, mu)
        /\ UNCHANGED nextPtr

GetEntitiesByTypeReturn ==
    \E g \in Goroutines :
        /\ Inside(g, "GetEntitiesByType")
        /\ \E v \in TornReads(gs[g].local, em) :
               snapshot' = GetEntitiesByType(v, gs[g].arg)
        /\ ret' = NoRet
        /\ hist' = [hist EXCEPT !.op = "GetEntitiesByType", !.pre = gs[g].local]
        /\ Leave(g, "GetEntitiesByType", mu)
        /\ UNCHANGED em

InitGoroutines ==
    /\ em = NewEntityManager
    /\ pe = NewPhysicsEngine(80000, 24000)
    /\ m = initialModel
    /\ snapshot = <<>>
    /\ ret = NoRet
    /\ hist = HistInit
    /\ nextPtr = 1
    /\ steps = 0
    /\ mu = NewRWMutex
    /\ gs = StartGoroutines
    /\ heap = NoHeap

NextGoroutines ==
    \/ AddEntityLock
    \/ AddEntityUnlock
    \/ RemoveEntityLock
    \/ RemoveEntityUnlock
    \/ ClearLock
    \/ ClearUnlock
    \/ GetEntitiesRLock
    \/ GetEntitiesRUnlock
    \/ CountRLock
    \/ CountRUnlock
    \/ CountByTypeRLock
    \/ CountByTypeRUnlock
    \/ GetEntitiesByTypeRange
    \/ GetEntitiesByTypeReturn

SpecGoroutines == InitGoroutines /\ [][NextGoroutines]_vars

Reading(g) == gs[g].pc = "body" /\ gs[g].op \in ReadOps
Writing(g) == gs[g].pc = "body" /\ gs[g].op \in WriteOps

\* C12: every public read operation of the EntityManager (GetEntities,
\* GetEntitiesByType, Count, CountByType) holds the read lock while it reads
\* and every write operation (AddEntity, RemoveEntity, Clear) holds the write
\* lock while it writes, so no read of the entity list overlaps a write.
C12_NoReadOverlapsWrite ==
    /\ \A g \in Goroutines : Reading(g) => g \in mu.readers
    /\ \A g \in Goroutines : Writing(g) => mu.writer = g
    /\ \A g \in Goroutines : \A h \in Goroutines : ~(Reading(g) /\ Writing(h))

\* the operations that do take the lock never overlap a write
LockedReadsExcludeWrites ==
    \A g \in Goroutines : \A h \in Goroutines :
        Reading(g) /\ gs[g].op # "GetEntitiesByType" => ~Writing(h)

\* C13: with goroutines calling AddEntity while others call Count, and nothing
\* removed or cleared, no add is lost: Count is the number of AddEntity calls
\* made (once they have returned), and every Count returned meanwhile is
\* between 0 and that number.
C13_NoAddLost ==
    hist.removes = 0 /\ hist.clears = 0 =>
        /\ Count(em) = hist.adds
        /\ hist.op = "Count" => 0 <= ret.n /\ ret.n <= hist.adds

C13_Witness ==
    /\ hist.removes = 0 /\ hist.clears = 0
    /\ hist.op = "Count" /\ ret.n >= 1
    /\ \E g \in Goroutines : Inside(g, "AddEntity") /\ Len(gs[g].local) >= 1

----------------------------------------------------------------------------
(* the registry with its slices on the heap: a slice is the number of a
   backing array and a length, an array is its written cells and its capacity *)

MaxSliceOps == 5

NoSlice == [arr |-> 0, len |-> 0]

\* the elements seen through the slice s
Elems(arrays, s) == IF s.arr = 0 THEN <<>> ELSE SubSeq(arrays[s.arr].cells, 1, s.len)

\* NewEntityManager: entities: make([]Entity, 0)
NewHeap == [arrays |-> <<[cells |-> <<>>, cap |-> 0]>>, entities |-> [arr |-> 1, len |-> 0]]

\* the capacity append grows a full array of capacity cap to
GrowCap(cap) == IF cap = 0 THEN 1 ELSE 2 * cap

\* em.entities = append(em.entities, entity): in place while the capacity
\* lasts, else into a new array
HeapAddEntity(h, e) ==
    LET s == h.entities
        a == h.arrays[s.arr]
    IN  IF s.len < a.cap
        THEN [arrays |-> [h.arrays EXCEPT ![s.arr].cells =
                             SubSeq(a.cells, 1, s.len) \o <<e>> \o SubSeq(a.cells, s.len + 2, Len(a.cells))],
              entities |-> [arr |-> s.arr, len |-> s.len + 1]]
        ELSE [arrays |-> Append(h.arrays, [cells |-> Elems(h.arrays, s) \o <<e>>, cap |-> GrowCap(a.cap)]),
              entities |-> [arr |-> Len(h.arrays) + 1, len |-> s.len + 1]]

\* em.entities = append(em.entities[:i], em.entities[i+1:]...): the cells after
\* i move down one place in the same array, the last cell keeps its value
HeapRemoveEntity(h, id) ==
    LET s == h.entities
        a == h.arrays[s.arr]
        i == FirstWithID(Elems(h.arrays, s), id, 1)
    IN  IF i = 0 THEN h
        ELSE [arrays |-> [h.arrays EXCEPT ![s.arr].cells =
                             SubSeq(a.cells, 1, i - 1) \o SubSeq(a.cells, i + 1, s.len)
                                 \o SubSeq(a.cells, s.len, Len(a.cells))],
              entities |-> [arr |-> s.arr, len |-> s.len - 1]]

\* em.entities = make([]Entity, 0)
HeapClear(h) ==
    [arrays |-> Append(h.arrays, [cells |-> <<>>, cap |-> 0]),
     entities |-> [arr |-> Len(h.arrays) + 1, len |-> 0]]

\* a GetEntities that returns em.entities itself
MutHeapGetEntitiesAlias(h) == [heap |-> h, slice |-> h.entities]

\* entities := make([]Entity, len(em.entities)); copy(entities, em.entities)
HeapGetEntities(h) ==
    [heap |-> [h EXCEPT !.arrays = Append(@, [cells |-> Elems(h.arrays, h.entities),
                                              cap |-> h.entities.len])],
     slice |-> [arr |-> Len(h.arrays) + 1, len |-> h.entities.len]]

SliceAddEntity ==
    /\ steps < MaxSliceOps
    /\ Len(em) < MaxEntities
    /\ \E t \in EntityTypes, r1 \in 0..(IdRange - 1) :
           /\ heap' = HeapAddEntity(heap, NewEntity(t, nextPtr, r1, 0, 0, 0, 1))
           /\ em' = Elems(heap'.arrays, heap'.entities)
    /\ nextPtr' = nextPtr + 1
    /\ ret' = NoRet
    /\ hist' = [hist EXCEPT !.op = "AddEntity", !.pre = em, !.adds = @ + 1]
    /\ steps' = steps + 1
    /\ UNCHANGED <<pe, m, snapshot, mu, gs>>

SliceRemoveEntity ==
    /\ steps < MaxSliceOps
    /\ \E t \in EntityTypes, r1 \in 0..(IdRange - 1) :
           /\ heap' = HeapRemoveEntity(heap, generateID(IdPrefix(t), r1, 0))
           /\ em' = Elems(heap'.arrays, heap'.entities)
           /\ ret' = [ok |-> StoredID(em, generateID(IdPrefix(t), r1, 0)), n |-> 0]
           /\ hist' = [hist EXCEPT !.op = "RemoveEntity", !.pre = em,
                          !.removes = IF StoredID(em, generateID(IdPrefix(t), r1, 0)) THEN @ + 1 ELSE @]
    /\ steps' = steps + 1
    /\ UNCHANGED <<pe, m, snapshot, nextPtr, mu, gs>>

SliceClear ==
    /\ steps < MaxSliceOps
    /\ heap' = HeapClear(heap)
    /\ em' = Elems(heap'.arrays, heap'.entities)
    /\ ret' = NoRet
    /\ hist' = [hist EXCEPT !.op = "Clear", !.pre = em, !.clears = @ + 1]
    /\ steps' = steps + 1
    /\ UNCHANGED <<pe, m, snapshot, nextPtr, mu, gs>>

\* entities := manager.GetEntities(): hist.args keeps what was stored then,
\* hist.trace what a range over the returned slice has visited
SliceGetEntities ==
    /\ steps < MaxSliceOps
    /\ heap' = HeapGetEntities(heap).heap
    /\ snapshot' = HeapGetEntities(heap).slice
    /\ ret' = NoRet
    /\ hist' = [hist EXCEPT !.op = "GetEntities", !.pre = em, !.args = em, !.trace = <<>>]
    /\ steps' = steps + 1
    /\ UNCHANGED <<em, pe, m, nextPtr, mu, gs>>

\* for _, entity := range entities { manager.RemoveEntity(entity.GetID()) }:
\* one iteration, which reads the next cell of the returned slice
SliceRangeRemove ==
    /\ steps < MaxSliceOps
    /\ Len(hist.trace) < snapshot.len
    /\ heap' = HeapRemoveEntity(heap, Elems(heap.arrays, snapshot)[Len(hist.trace) + 1].ID)
    /\ em' = Elems(heap'.arrays, heap'.entities)
    /\ ret' = [ok |-> StoredID(em, Elems(heap.arrays, snapshot)[Len(hist.trace) + 1].ID), n |-> 0]
    /\ hist' = [hist EXCEPT !.op = "RangeRemove", !.pre = em,
                   !.trace = Append(@, Elems(heap.arrays, snapshot)[Len(hist.trace) + 1]),
                   !.removes = IF StoredID(em, Elems(heap.arrays, snapshot)[Len(hist.trace) + 1].ID)
                               THEN @ + 1 ELSE @]
    /\ steps' = steps + 1
    /\ UNCHANGED <<pe, m, snapshot, nextPtr, mu, gs>>

InitSlices ==
    /\ em = NewEntityManager
    /\ pe = NewPhysicsEngine(80000, 24000)
    /\ m = initialModel
    /\ snapshot = NoSlice
    /\ ret = NoRet
    /\ hist = HistInit
    /\ nextPtr = 1
    /\ steps = 0
    /\ mu = NewRWMutex
    /\ gs = NoGoroutines
    /\ heap = NewHeap

NextSlices ==
    \/ SliceAddEntity
    \/ SliceRemoveEntity
    \/ SliceClear
    \/ SliceGetEntities
    \/ SliceRangeRemove

SpecSlices == InitSlices /\ [][NextSlices]_vars

\* C14: the slice GetEntities() returned is an independent snapshot: AddEntity,
\* RemoveEntity and Clear afterwards change neither its length nor its
\* elements, and a range over it that calls RemoveEntity for the entities it
\* visits visits every entity of the snapshot, in order.
C14_SnapshotIndependent ==
    snapshot # NoSlice =>
        /\ Elems(heap.arrays, snapshot) = hist.args
        /\ hist.trace = SubSeq(hist.args, 1, Len(hist.trace))

\* a range over a snapshot of two or more entities has visited them all,
\* removing them from the manager as it went
C14_Witness ==
    /\ snapshot.len >= 2
    /\ Len(hist.trace) = snapshot.len
    /\ hist.removes >= 2
    /\ hist.op = "RangeRemove"

----------------------------------------------------------------------------
(* gravity on an entity at rest: TestApplyGravity with every size the
   factories take and gravities set through SetGravity *)

MaxGravityTicks == 2

GravitySizes == {0 - 1, 0, 1, 4, 5}
GravityArgs == {100, 10000, 25000, 50000}

EngineSetGravity ==
    \E gravity \in GravityArgs :
        /\ steps < MaxGravityTicks
        /\ pe' = SetGravity(pe, gravity)
        /\ hist' = [hist EXCEPT !.op = "SetGravity", !.pre = em, !.args = <<gravity>>]
        /\ UNCHANGED <<em, m, snapshot, ret, nextPtr, steps, mu, gs, heap>>

GravityApplyPhysics ==
    /\ steps < MaxGravityTicks
    /\ em' = ApplyPhysics(pe, em)
    /\ hist' = [hist EXCEPT !.op = "ApplyPhysics", !.pre = em, !.args = <<>>]
    /\ steps' = steps + 1
    /\ UNCHANGED <<pe, m, snapshot, ret, nextPtr, mu, gs, heap>>

InitGravity ==
    /\ \E t \in EntityTypes, size \in GravitySizes :
           em = <<NewEntity(t, 1, 0, 0, 10000, 10000, size)>>
    /\ pe = NewPhysicsEngine(100000, 50000)
    /\ m = initialModel
    /\ snapshot = <<>>
    /\ ret = NoRet
    /\ hist = HistInit
    /\ nextPtr = 2
    /\ steps = 0
    /\ mu = NewRWMutex
    /\ gs = NoGoroutines
    /\ heap = NoHeap

NextGravity ==
    \/ EngineSetGravity
    \/ GravityApplyPhysics

SpecGravity == InitGravity /\ [][NextGravity]_vars

AtRest(e) == e.VX = 0 /\ e.VY = 0

\* C18: for every entity (either type, any size the factories accept) with
\* zero velocity and every positive gravity, after one ApplyPhysics tick the
\* vertical velocity is strictly positive and the horizontal velocity still 0.
C18_GravityAccelerates ==
    hist.op = "ApplyPhysics" /\ FGt(pe.Gravity, 0) =>
        \A i \in 1..Len(em) :
            AtRest(hist.pre[i]) => FGt(em[i].VY, 0) /\ em[i].VX = 0

\* with a positive mass and one of the application's gravity levels it does
GravityAcceleratesMassive ==
    hist.op = "ApplyPhysics" /\ FGe(pe.Gravity, 10000) =>
        \A i \in 1..Len(em) :
            AtRest(hist.pre[i]) /\ FGt(hist.pre[i].Mass, 0) =>
                FGt(em[i].VY, 0) /\ em[i].VX = 0

\* a massless entity stays at rest under the default gravity
MasslessAtRestUnderGravity ==
    hist.op = "ApplyPhysics" /\ pe.Gravity = DefaultGravity =>
        \A i \in 1..Len(em) :
            AtRest(hist.pre[i]) /\ hist.pre[i].Size = 0 => AtRest(em[i])

----------------------------------------------------------------------------
(* capVelocity called again and again on a slow entity *)

MaxCapCalls == 8

SlowComponents == {0 - 149, 0 - 100, 0 - 60, 0 - 49, 0, 49, 60, 100, 149}

\* the velocities of speed below 3 * MinVelocity
SlowVelocities ==
    {v \in SlowComponents \X SlowComponents :
        FLt(Hypot(v[1], v[2]), FMul(DefaultMinVelocity, 3000))}

\* hist.args keeps the velocity the entity started with, steps counts the calls
CapVelocity ==
    /\ em' = [i \in 1..Len(em) |-> capVelocity(pe, em[i])]
    /\ hist' = [hist EXCEPT !.op = "capVelocity", !.pre = em]
    /\ steps' = IF steps < MaxCapCalls THEN steps + 1 ELSE steps
    /\ UNCHANGED <<pe, m, snapshot, ret, nextPtr, mu, gs, heap>>

InitCap ==
    /\ \E t \in EntityTypes, v \in SlowVelocities :
           /\ em = <<SetVelocity(NewEntity(t, 1, 0, 0, 10000, 10000, 1), v[1], v[2])>>
           /\ hist = [HistInit EXCEPT !.args = v]
    /\ pe = NewPhysicsEngine(100000, 50000)
    /\ m = initialModel
    /\ snapshot = <<>>
    /\ ret = NoRet
    /\ nextPtr = 2
    /\ steps = 0
    /\ mu = NewRWMutex
    /\ gs = NoGoroutines
    /\ heap = NoHeap

NextCap == CapVelocity

SpecCap == InitCap /\ [][NextCap]_vars

AllAtRest == \A i \in 1..Len(em) : AtRest(em[i])

\* C19: from any velocity of speed below 3 * MinVelocity, repeated capVelocity
\* calls reach the velocity (0, 0) exactly after a bounded number of calls
\* (five), and the velocity stays (0, 0) on every call after that.
C19_CapVelocityReachesRest == steps >= 5 => AllAtRest

\* the entity started slow, was still moving after four calls and is at rest
\* after the fifth
C19_Witness ==
    /\ hist.op = "capVelocity"
    /\ FLt(Hypot(hist.args[1], hist.args[2]), FMul(pe.MinVelocity, 3000))
    /\ steps = 5
    /\ ~AtRest(hist.pre[1])
    /\ AllAtRest

\* rest is kept by every call
RestIsKept == [][AllAtRest => AllAtRest']_vars

----------------------------------------------------------------------------
(* the animation state of one entity: SetTarget, SetInitialPosition and the
   frames of UpdateAnimation; steps counts the frames since the last of the
   two setters, hist.trace lists the setter calls *)

MaxTargets == 2
MaxAnimFrames == 200

TargetArgs == {<<1000, 1000>>, <<30000, 5000>>, <<NaN, 0>>, <<0, PosInf>>}
PositionArgs == {<<0, 0>>, <<NaN, 0>>}

AnimSetTarget ==
    /\ Len(hist.trace) < MaxTargets
    /\ \E t \in TargetArgs :
           /\ em' = [em EXCEPT ![1].AnimationState = SetTarget(@, t[1], t[2])]
           /\ hist' = [hist EXCEPT !.op = "SetTarget", !.pre = em, !.args = t,
                                   !.trace = Append(@, <<"SetTarget", t>>)]
    /\ steps' = 0
    /\ UNCHANGED <<pe, m, snapshot, ret, nextPtr, mu, gs, heap>>

AnimSetInitialPosition ==
    /\ Len(hist.trace) < MaxTargets
    /\ \E t \in PositionArgs :
           /\ em' = [em EXCEPT ![1].AnimationState = SetInitialPosition(@, t[1], t[2])]
           /\ hist' = [hist EXCEPT !.op = "SetInitialPosition", !.pre = em, !.args = t,
                                   !.trace = Append(@, <<"SetInitialPosition", t>>)]
    /\ steps' = 0
    /\ UNCHANGED <<pe, m, snapshot, ret, nextPtr, mu, gs, heap>>

AnimUpdateAnimation ==
    /\ em' = [em EXCEPT ![1] = UpdateAnimation(@)]
    /\ hist' = [hist EXCEPT !.op = "UpdateAnimation", !.pre = em]
    /\ steps' = IF steps < MaxAnimFrames THEN steps + 1 ELSE steps
    /\ UNCHANGED <<pe, m, snapshot, ret, nextPtr, mu, gs, heap>>

InitAnimation ==
    /\ \E t \in EntityTypes : em = <<NewEntity(t, 1, 0, 0, 0, 0, 1)>>
    /\ pe = NewPhysicsEngine(100000, 50000)
    /\ m = initialModel
    /\ snapshot = <<>>
    /\ ret = NoRet
    /\ hist = HistInit
    /\ nextPtr = 2
    /\ steps = 0
    /\ mu = NewRWMutex
    /\ gs = NoGoroutines
    /\ heap = NoHeap

NextAnimation ==
    \/ AnimSetTarget
    \/ AnimSetInitialPosition
    \/ AnimUpdateAnimation

SpecAnimation == InitAnimation /\ [][NextAnimation]_vars

Anim == em[1].AnimationState

\* the display position is within d of the target on both axes
DisplayWithin(eas, d) ==
    /\ FLe(FAbs(FSub(eas.DisplayX, eas.TargetX)), d)
    /\ FLe(FAbs(FSub(eas.DisplayY, eas.TargetY)), d)

FiniteDisplay(eas) == IsFinite(eas.DisplayX) /\ IsFinite(eas.DisplayY)

\* C20: from a state with IsAnimating true and a fixed target, repeated
\* UpdateAnimation calls with no SetTarget in between set IsAnimating to false
\* within the frames counted (fewer than the 1000 of the claim), and when they
\* do the display position is within 0.02 of the target on both axes.
C20_AnimationConverges ==
    /\ steps >= MaxAnimFrames => ~Anim.IsAnimating
    /\ (/\ hist.op = "UpdateAnimation"
        /\ hist.pre[1].AnimationState.IsAnimating
        /\ ~Anim.IsAnimating) => DisplayWithin(Anim, 20)

\* from a finite display position it does
FiniteAnimationConverges ==
    /\ (FiniteDisplay(Anim) /\ steps >= MaxAnimFrames) => ~Anim.IsAnimating
    /\ (/\ hist.op = "UpdateAnimation"
        /\ hist.pre[1].AnimationState.IsAnimating
        /\ ~Anim.IsAnimating) => DisplayWithin(Anim, 20)

\* an animation towards a target 30 away has just ended
FiniteAnimationEnded ==
    /\ hist.op = "UpdateAnimation"
    /\ hist.pre[1].AnimationState.IsAnimating
    /\ ~Anim.IsAnimating
    /\ Anim.TargetX = 30000
    /\ steps >= 50

FiniteTarget(eas) == IsFinite(eas.TargetX) /\ IsFinite(eas.TargetY)

\* the coordinate SetTarget stores for an argument: the display coordinate
\* for NaN and +-Inf, the argument otherwise
Sanitized(arg, display) == IF IsNaN(arg) \/ IsInf(arg) THEN display ELSE arg

\* C22: after any sequence of SetTarget, SetInitialPosition and
\* UpdateAnimation calls with arbitrary arguments (NaN and +-Inf included) the
\* target coordinates and the display coordinates are finite, and a NaN or
\* infinite target coordinate given to SetTarget is replaced by the display
\* coordinate of that axis.
C22_AnimationStaysFinite ==
    /\ FiniteTarget(Anim)
    /\ FiniteDisplay(Anim)
    /\ hist.op = "SetTarget" =>
           /\ Anim.TargetX = Sanitized(hist.args[1], hist.pre[1].AnimationState.DisplayX)
           /\ Anim.TargetY = Sanitized(hist.args[2], hist.pre[1].AnimationState.DisplayY)

\* SetTarget alone keeps a finite state finite and substitutes the display
\* coordinate
SetTargetSubstitutes ==
    hist.op = "SetTarget" =>
        /\ Anim.TargetX = Sanitized(hist.args[1], hist.pre[1].AnimationState.DisplayX)
        /\ Anim.TargetY = Sanitized(hist.args[2], hist.pre[1].AnimationState.DisplayY)
        /\ FiniteDisplay(hist.pre[1].AnimationState) => FiniteTarget(Anim)

\* a NaN target was substituted
SetTargetSubstituted ==
    /\ hist.op = "SetTarget"
    /\ IsNaN(hist.args[1])
    /\ Anim.TargetX = hist.pre[1].AnimationState.DisplayX
    /\ IsFinite(Anim.TargetX)
    /\ Anim.TargetX # 0

----------------------------------------------------------------------------
(* the operations of one entity that change its physics position *)

MaxPositionOps == 3

PositionCoords == {0, 5000, 20000}
PositionVelocities == {0 - 3000, 0, 1000}

PosSetPosition ==
    /\ steps < MaxPositionOps
    /\ \E x \in PositionCoords, y \in PositionCoords :
           /\ em' = [em EXCEPT ![1] = SetPosition(@, x, y)]
           /\ hist' = [hist EXCEPT !.op = "SetPosition", !.pre = em, !.args = <<x, y>>]
    /\ steps' = steps + 1
    /\ UNCHANGED <<pe, m, snapshot, ret, nextPtr, mu, gs, heap>>

PosSetImmediatePosition ==
    /\ steps < MaxPositionOps
    /\ \E x \in PositionCoords, y \in PositionCoords :
           /\ em' = [em EXCEPT ![1] = SetImmediatePosition(@, x, y)]
           /\ hist' = [hist EXCEPT !.op = "SetImmediatePosition", !.pre = em,
                                   !.args = <<x, y>>]
    /\ steps' = steps + 1
    /\ UNCHANGED <<pe, m, snapshot, ret, nextPtr, mu, gs, heap>>

PosSetVelocity ==
    /\ steps < MaxPositionOps
    /\ \E vx \in PositionVelocities, vy \in PositionVelocities :
           /\ em' = [em EXCEPT ![1] = SetVelocity(@, vx, vy)]
           /\ hist' = [hist EXCEPT !.op = "SetVelocity", !.pre = em, !.args = <<vx, vy>>]
    /\ steps' = steps + 1
    /\ UNCHANGED <<pe, m, snapshot, ret, nextPtr, mu, gs, heap>>

PosUpdate ==
    /\ steps < MaxPositionOps
    /\ em' = [em EXCEPT ![1] = Update(@, DefaultDeltaTime)]
    /\ hist' = [hist EXCEPT !.op = "Update", !.pre = em, !.args = <<DefaultDeltaTime>>]
    /\ steps' = steps + 1
    /\ UNCHANGED <<pe, m, snapshot, ret, nextPtr, mu, gs, heap>>

InitPosition ==
    /\ \E t \in EntityTypes : em = <<NewEntity(t, 1, 0, 0, 10000, 10000, 1)>>
    /\ pe = NewPhysicsEngine(100000, 50000)
    /\ m = initialModel
    /\ snapshot = <<>>
    /\ ret = NoRet
    /\ hist = HistInit
    /\ nextPtr = 2
    /\ steps = 0
    /\ mu = NewRWMutex
    /\ gs = NoGoroutines
    /\ heap = NoHeap

NextPosition ==
    \/ PosSetPosition
    \/ PosSetImmediatePosition
    \/ PosSetVelocity
    \/ PosUpdate

SpecPosition == InitPosition /\ [][NextPosition]_vars

TargetIsPosition(e) ==
    e.AnimationState.TargetX = e.X /\ e.AnimationState.TargetY = e.Y

\* C23: after every public entity operation that changes the physics position
\* (SetPosition, SetImmediatePosition, Update) the animation target position
\* equals the entity's physics position.
C23_TargetMirrorsPosition ==
    hist.op \in {"SetPosition", "SetImmediatePosition", "Update"} =>
        TargetIsPosition(em[1])

\* it does after SetImmediatePosition and after Update
TargetFollowsImmediateAndUpdate ==
    hist.op \in {"SetImmediatePosition", "Update"} => TargetIsPosition(em[1])

\* an Update has moved the entity and its target
UpdateMovedTarget ==
    /\ hist.op = "Update"
    /\ em[1].X # hist.pre[1].X
    /\ em[1].AnimationState.TargetX = em[1].X
    /\ em[1].AnimationState.DisplayX # em[1].X

----------------------------------------------------------------------------
(* the setters of the engine with arbitrary float64 arguments; hist.pre is
   the engine before the call *)

MaxSettingOps == 3

SettingGravityArgs == {NaN, PosInf, NegInf, 0 - 50000, 0, 50000, MaxFloat}
SettingRestitutionArgs == {NaN, PosInf, NegInf, 0 - 100, 0, 900, 1000, 1001, 1500}

SettingSetGravity ==
    /\ steps < MaxSettingOps
    /\ \E g \in SettingGravityArgs :
           /\ pe' = SetGravity(pe, g)
           /\ hist' = [hist EXCEPT !.op = "SetGravity", !.pre = pe, !.args = <<g>>]
    /\ steps' = steps + 1
    /\ UNCHANGED <<em, m, snapshot, ret, nextPtr, mu, gs, heap>>

SettingSetRestitution ==
    /\ steps < MaxSettingOps
    /\ \E r \in SettingRestitutionArgs :
           /\ pe' = SetRestitution(pe, r)
           /\ hist' = [hist EXCEPT !.op = "SetRestitution", !.pre = pe, !.args = <<r>>]
    /\ steps' = steps + 1
    /\ UNCHANGED <<em, m, snapshot, ret, nextPtr, mu, gs, heap>>

InitSettings ==
    /\ em = <<>>
    /\ pe = NewPhysicsEngine(100000, 50000)
    /\ m = initialModel
    /\ snapshot = <<>>
    /\ ret = NoRet
    /\ hist = HistInit
    /\ nextPtr = 1
    /\ steps = 0
    /\ mu = NewRWMutex
    /\ gs = NoGoroutines
    /\ heap = NoHeap

NextSettings ==
    \/ SettingSetGravity
    \/ SettingSetRestitution

SpecSettings == InitSettings /\ [][NextSettings]_vars

ValidRestitution(r) == FGe(r, 0) /\ FLe(r, 1000)

\* C24: the engine setters ignore invalid input and keep the prior value:
\* SetGravity given NaN or +-Inf leaves gravity unchanged, SetRestitution given
\* a value outside [0, 1] or NaN leaves restitution unchanged (and both store
\* a valid value), so in every reachable engine state gravity is finite and
\* restitution lies in [0, 1].
C24_SettersRejectInvalid ==
    /\ IsFinite(pe.Gravity)
    /\ ValidRestitution(pe.Restitution)
    /\ hist.op = "SetGravity" =>
           /\ pe.Gravity = (IF IsFinite(hist.args[1]) THEN hist.args[1]
                            ELSE hist.pre.Gravity)
           /\ pe.Restitution = hist.pre.Restitution
    /\ hist.op = "SetRestitution" =>
           /\ pe.Restitution = (IF ValidRestitution(hist.args[1]) THEN hist.args[1]
                                ELSE hist.pre.Restitution)
           /\ pe.Gravity = hist.pre.Gravity

\* an invalid restitution and an invalid gravity were both ignored after
\* valid ones had been stored
C24_Witness ==
    /\ hist.op = "SetRestitution"
    /\ ~ValidRestitution(hist.args[1])
    /\ pe.Restitution = hist.pre.Restitution
    /\ pe.Restitution # DefaultRestitution
    /\ pe.Gravity # DefaultGravity

----------------------------------------------------------------------------
(* the bounds of the engine under the application's messages *)

WellFormedBounds(p) == FGe(p.MaxX, p.MinX) /\ FGe(p.MaxY, p.MinY)

\* C25: in every reachable engine state the bounds are well-formed,
\* MaxX >= MinX and MaxY >= MinY, so neither maximum is negative: a too small
\* width or height is clamped or the previous bounds are kept, for the bounds
\* the application derives from any terminal size included.
C25_BoundsWellFormed == WellFormedBounds(pe)

\* the width is kept well-formed by the 20-column minimum of the pane
WidthWellFormed == FGe(pe.MaxX, pe.MinX)

\* a small terminal has given the engine a negative lower wall
NegativeMaxY ==
    /\ hist.op = "WindowSizeMsg"
    /\ hist.args = <<30, 12>>
    /\ FLt(pe.MaxY, 0)
    /\ FGe(pe.MaxX, 0)

----------------------------------------------------------------------------
(* resolveCollision on coincident centres, for the values of the random source *)

FiniteEntity(e) ==
    IsFinite(e.X) /\ IsFinite(e.Y) /\ IsFinite(e.VX) /\ IsFinite(e.VY)

\* the distance resolveCollision divides by, for the draws in hist.args
DividedBy == collisionNormal(hist.pre[1], hist.pre[2], hist.args[1], hist.args[2])[3]

\* C26: resolveCollision never divides by zero and never stores a NaN or
\* infinite position or velocity: when the two centres coincide the collision
\* normal is computed from a perturbation of non-zero length, for every value
\* the random source can return.
C26_ResolveCollisionFinite ==
    hist.op = "resolveCollision" =>
        /\ FNe(DividedBy, 0)
        /\ \A i \in 1..Len(em) : FiniteEntity(em[i])

\* it holds from finite entities for every pair of draws other than (0.5, 0.5)
ResolveFiniteOffCentre ==
    (/\ hist.op = "resolveCollision"
     /\ hist.args # <<500, 500>>
     /\ \A i \in 1..Len(hist.pre) : FiniteEntity(hist.pre[i])) =>
        /\ FNe(DividedBy, 0)
        /\ \A i \in 1..Len(em) : FiniteEntity(em[i])

\* coincident centres were separated along a random normal
CoincidentSeparated ==
    /\ hist.op = "resolveCollision"
    /\ hist.pre[1].X = hist.pre[2].X /\ hist.pre[1].Y = hist.pre[2].Y
    /\ hist.args = <<0, 500>>
    /\ em[1].X # em[2].X
    /\ \A i \in 1..Len(em) : FiniteEntity(em[i])

----------------------------------------------------------------------------
(* the entity limit of the application: the add keys, the stress test, clear,
   reset and the two keys that change the limit, after the first
   WindowSizeMsg.  steps counts the single adds, hist.pre is the count of
   entities before the message, nextPtr bounds the entities ever made *)

MaxLimitEntities == 60
MaxLimitAdds == 2

StressTestEntities == 20

\* the outcomes of the random source for the entities of one stress test:
\* <<the type chosen by rand.Float64() < 0.5, whether rand.Intn is its
\*   largest value, rand.Intn(4) + 1>>
StressDraws == {<<SphereType, FALSE, 1>>, <<SpriteType, TRUE, 4>>}

\* the loop of runStressTest from iteration i on
RECURSIVE stressLoop(_, _, _, _, _)
stressLoop(mm, es, i, ptr, d) ==
    IF i >= StressTestEntities \/ Count(es) >= mm.maxEntityLimit THEN es
    ELSE LET x == FromInt((IF d[2] THEN mm.simWidth - 5 ELSE 0) + 2)
             y == FromInt(2 + (IF d[2] THEN mm.simHeight - 7 ELSE 0))
             e == NewEntity(d[1], ptr, 0, 0, x, y, d[3])
         IN  stressLoop(mm, AddEntity(es, AddRandomVelocity(e, 10000, 0, 999)),
                        i + 1, ptr + 1, d)

\* runStressTest: the entities afterwards
runStressTest(mm, es, ptr, d) ==
    IF mm.simWidth <= 0 \/ mm.simHeight <= 0 THEN es
    ELSE stressLoop(mm, es, 0, ptr, d)

LimitAddEntity(t) ==
    /\ steps < MaxLimitAdds
    /\ nextPtr <= MaxLimitEntities
    /\ m.simWidth - 4 > 0
    /\ IF Count(em) < m.maxEntityLimit
       THEN /\ LET e == NewEntity(t, nextPtr, 0, 0, FromInt(2), FromInt(2), m.selectedEntitySize)
               IN  em' = AddEntity(em, AddRandomVelocity(e, 5000, 0, 999))
            /\ nextPtr' = nextPtr + 1
       ELSE UNCHANGED <<em, nextPtr>>
    /\ hist' = [hist EXCEPT !.op = "addEntity", !.pre = Count(em)]
    /\ steps' = steps + 1
    /\ UNCHANGED <<pe, m, snapshot, ret, mu, gs, heap>>

\* the "t" key
LimitStressTest ==
    \E d \in StressDraws :
        LET after == runStressTest(m, em, nextPtr, d)
        IN  /\ nextPtr + (Len(after) - Len(em)) <= MaxLimitEntities + 1
            /\ em' = after
            /\ nextPtr' = nextPtr + (Len(after) - Len(em))
            /\ m' = [m EXCEPT !.performanceMode = IF Len(after) > Len(em) THEN TRUE ELSE @]
            /\ hist' = [hist EXCEPT !.op = "runStressTest", !.pre = Count(em)]
            /\ UNCHANGED <<pe, snapshot, ret, steps, mu, gs, heap>>

LimitClearAll ==
    /\ em' = Clear(em)
    /\ hist' = [hist EXCEPT !.op = "clearAll", !.pre = Count(em)]
    /\ UNCHANGED <<pe, m, snapshot, ret, nextPtr, steps, mu, gs, heap>>

LimitReset ==
    /\ em' = Clear(em)
    /\ m' = [m EXCEPT !.paused = FALSE, !.pauseLabel = "Pause"]
    /\ pe' = Resume(pe)
    /\ hist' = [hist EXCEPT !.op = "reset", !.pre = Count(em)]
    /\ UNCHANGED <<snapshot, ret, nextPtr, steps, mu, gs, heap>>

\* the "f" key
LimitTogglePerformanceMode ==
    /\ m' = [m EXCEPT !.performanceMode = ~m.performanceMode,
                      !.maxEntityLimit = IF ~m.performanceMode /\ m.maxEntityLimit < 1000
                                         THEN 1000 ELSE m.maxEntityLimit]
    /\ hist' = [hist EXCEPT !.op = "togglePerformanceMode", !.pre = Count(em)]
    /\ UNCHANGED <<em, pe, snapshot, ret, nextPtr, steps, mu, gs, heap>>

\* the "l" key
LimitToggleEntityLimit ==
    /\ m' = [m EXCEPT !.maxEntityLimit = IF m.maxEntityLimit = 50 THEN 200
                                         ELSE IF m.maxEntityLimit = 200 THEN 1000
                                         ELSE DefaultEntityLimit]
    /\ hist' = [hist EXCEPT !.op = "toggleEntityLimit", !.pre = Count(em)]
    /\ UNCHANGED <<em, pe, snapshot, ret, nextPtr, steps, mu, gs, heap>>

\* the model after the first WindowSizeMsg, of an 80x24 terminal
InitLimit ==
    /\ em = NewEntityManager
    /\ m = [updatePaneDimensions([initialModel EXCEPT !.termWidth = 80, !.termHeight = 24])
               EXCEPT !.ready = TRUE]
    /\ pe = UpdateBounds(NewPhysicsEngine(80000, 24000), FromInt(m.simWidth),
                         FromInt(m.simHeight - 8))
    /\ snapshot = <<>>
    /\ ret = NoRet
    /\ hist = HistInit
    /\ nextPtr = 1
    /\ steps = 0
    /\ mu = NewRWMutex
    /\ gs = NoGoroutines
    /\ heap = NoHeap

NextLimit ==
    \/ LimitAddEntity(SphereType)
    \/ LimitAddEntity(SpriteType)
    \/ LimitStressTest
    \/ LimitClearAll
    \/ LimitReset
    \/ LimitTogglePerformanceMode
    \/ LimitToggleEntityLimit

SpecLimit == InitLimit /\ [][NextLimit]_vars

\* C27: in every state reachable by user actions (add sphere, add sprite,
\* stress test, clear, reset, the "l" key and the "f" key) the number of
\* entities in the registry does not exceed the current entity limit, and an
\* add taken when the count has reached the limit adds nothing.
C27_CountWithinLimit ==
    /\ Count(em) <= m.maxEntityLimit
    /\ (hist.op = "addEntity" /\ hist.pre >= m.maxEntityLimit) => Count(em) = hist.pre

\* no add and no stress test takes the count over the limit
AddsRespectLimit ==
    hist.op \in {"addEntity", "runStressTest"} =>
        \/ Count(em) <= m.maxEntityLimit
        \/ Count(em) = hist.pre

\* an add at the limit has added nothing
AddAtLimit ==
    /\ hist.op = "addEntity"
    /\ hist.pre = m.maxEntityLimit
    /\ Count(em) = hist.pre

----------------------------------------------------------------------------
(* boundary handling in a corner: the entity as handleBoundaryCollisions finds
   it in the tick just taken, and as it leaves it *)

\* the entity ApplyPhysics hands to handleBoundaryCollisions
BeforeWalls(p, e) == updatePosition(p, applyAirResistance(p, applyGravity(p, e)))

CrossesVerticalWall(p, e) ==
    FLe(FSub(e.X, HalfSize(e)), p.MinX) \/ FGe(FAdd(e.X, HalfSize(e)), p.MaxX)

CrossesHorizontalWall(p, e) ==
    FLe(FSub(e.Y, HalfSize(e)), p.MinY) \/ FGe(FAdd(e.Y, HalfSize(e)), p.MaxY)

\* the box of e touches the walls it crossed from inside
ClampedInside(p, e) ==
    /\ FSub(e.X, HalfSize(e)) = p.MinX \/ FAdd(e.X, HalfSize(e)) = p.MaxX
    /\ FSub(e.Y, HalfSize(e)) = p.MinY \/ FAdd(e.Y, HalfSize(e)) = p.MaxY

\* C28: when an entity crosses a vertical wall and a horizontal wall in the
\* same tick (a corner), boundary handling leaves it with both coordinates
\* clamped inside the walls and with both velocity components negated and
\* scaled by restitution: the reflection on the x axis is not undone when the
\* y axis is processed.
C28_CornerReflectsBoth ==
    hist.op = "ApplyPhysics" =>
        \A i \in 1..Len(em) :
            LET b == BeforeWalls(pe, hist.pre[i])
                a == handleBoundaryCollisions(pe, b)
            IN  CrossesVerticalWall(pe, b) /\ CrossesHorizontalWall(pe, b) =>
                    /\ ClampedInside(pe, a)
                    /\ a.VX = FMul(FNeg(b.VX), pe.Restitution)
                    /\ a.VY = FMul(FNeg(b.VY), pe.Restitution)

\* what the code does in a corner: both coordinates are clamped, the y
\* component is reflected, and the x component is the one the entity came with
CornerKeepsHorizontalVelocity ==
    hist.op = "ApplyPhysics" =>
        \A i \in 1..Len(em) :
            LET b == BeforeWalls(pe, hist.pre[i])
                a == handleBoundaryCollisions(pe, b)
            IN  CrossesVerticalWall(pe, b) /\ CrossesHorizontalWall(pe, b) =>
                    /\ ClampedInside(pe, a)
                    /\ a.VX = b.VX
                    /\ a.VY = FMul(FNeg(b.VY), pe.Restitution)

\* an entity moving into the left wall has crossed it in the top left corner
CornerCrossed ==
    /\ hist.op = "ApplyPhysics"
    /\ CrossesVerticalWall(pe, BeforeWalls(pe, hist.pre[1]))
    /\ CrossesHorizontalWall(pe, BeforeWalls(pe, hist.pre[1]))
    /\ FLt(BeforeWalls(pe, hist.pre[1]).VX, 0)
    /\ FLt(BeforeWalls(pe, hist.pre[1]).Y, 10000)

----------------------------------------------------------------------------
(* the three records of the pause: the model's flag, the engine's timestep and
   the label of the pause button *)

\* C29: in every state reachable through key presses and button actions (the
\* pause toggle and the reset by key or by button, and all other messages) the
\* model's paused flag is true exactly when the physics engine is not running
\* (timestep 0) and exactly when the pause button is labelled Resume.
C29_PauseFlagsAgree ==
    /\ m.paused <=> ~IsRunning(pe)
    /\ m.paused <=> (m.pauseLabel = "Resume")
    /\ m.pauseLabel \in {"Pause", "Resume"}

\* the simulation was paused with entities in it, after the window was sized
C29_Witness ==
    /\ hist.op = "togglePause"
    /\ m.paused
    /\ m.ready
    /\ pe.DeltaTime = 0
    /\ m.pauseLabel = "Resume"
    /\ Len(em) >= 1

\* a reset has followed (steps counts the messages: pause cannot be undone
\* in fewer than two)
ResetResumed ==
    /\ hist.op = "reset"
    /\ ~m.paused
    /\ IsRunning(pe)
    /\ steps >= 2

----------------------------------------------------------------------------
(* the add keys and buttons before and after the first WindowSizeMsg *)

\* C30: handling an add-sphere or add-sprite action (by key or by button)
\* never fails in any reachable model state, the states before the first
\* window-size message included: whenever an add is attempted below the entity
\* limit, the range from which the spawn x coordinate is drawn (simWidth - 4)
\* is positive.
C30_AddNeverFails ==
    /\ ~m.panicked
    /\ hist.op = "addEntity" => m.simWidth - 4 > 0

\* once the window has been sized, it does not fail
AddAfterResizeSucceeds ==
    (hist.op = "addEntity" /\ m.ready) => ~m.panicked /\ m.simWidth - 4 > 0

\* an entity was added after the window was sized
AddedAfterResize ==
    /\ hist.op = "addEntity"
    /\ m.ready
    /\ ~m.panicked
    /\ Len(em) >= 1

----------------------------------------------------------------------------
(* the animation state of one entity under a few calls in any order, with
   the arguments of the two setters drawn from TargetArgs and PositionArgs *)

MaxRestCalls == 5

RestPositionArgs == PositionArgs \cup {<<5000, 0 - 2000>>}

RestSetTarget ==
    /\ steps < MaxRestCalls
    /\ \E t \in TargetArgs :
           /\ em' = [em EXCEPT ![1].AnimationState = SetTarget(@, t[1], t[2])]
           /\ hist' = [hist EXCEPT !.op = "SetTarget", !.pre = em, !.args = t]
    /\ steps' = steps + 1
    /\ UNCHANGED <<pe, m, snapshot, ret, nextPtr, mu, gs, heap>>

RestSetInitialPosition ==
    /\ steps < MaxRestCalls
    /\ \E t \in RestPositionArgs :
           /\ em' = [em EXCEPT ![1].AnimationState = SetInitialPosition(@, t[1], t[2])]
           /\ hist' = [hist EXCEPT !.op = "SetInitialPosition", !.pre = em, !.args = t]
    /\ steps' = steps + 1
    /\ UNCHANGED <<pe, m, snapshot, ret, nextPtr, mu, gs, heap>>

RestUpdateAnimation ==
    /\ steps < MaxRestCalls
    /\ em' = [em EXCEPT ![1] = UpdateAnimation(@)]
    /\ hist' = [hist EXCEPT !.op = "UpdateAnimation", !.pre = em, !.args = <<>>]
    /\ steps' = steps + 1
    /\ UNCHANGED <<pe, m, snapshot, ret, nextPtr, mu, gs, heap>>

NextRest ==
    \/ RestSetTarget
    \/ RestSetInitialPosition
    \/ RestUpdateAnimation

SpecRest == InitAnimation /\ [][NextRest]_vars

\* C21: from any animation state (at rest or animating, any spring velocity)
\* SetInitialPosition(x, y) leaves the display position and the target
\* position holding (x, y), the spring velocity (0, 0) and IsAnimating false;
\* IsAnimating turns from false to true only in a SetTarget call.
C21_SetInitialPositionRests ==
    [][/\ hist'.op = "SetInitialPosition" =>
              /\ Anim'.DisplayX = hist'.args[1] /\ Anim'.TargetX = hist'.args[1]
              /\ Anim'.DisplayY = hist'.args[2] /\ Anim'.TargetY = hist'.args[2]
              /\ Anim'.VelocityX = 0 /\ Anim'.VelocityY = 0
              /\ ~Anim'.IsAnimating
       /\ (~Anim.IsAnimating /\ Anim'.IsAnimating) => hist'.op = "SetTarget"]_vars

\* SetInitialPosition has just stopped an animation in flight: the state
\* before it was animating with a spring velocity other than 0
C21_Witness ==
    /\ hist.op = "SetInitialPosition"
    /\ hist.pre[1].AnimationState.IsAnimating
    /\ hist.pre[1].AnimationState.VelocityX # 0
    /\ ~Anim.IsAnimating
    /\ Anim.VelocityX = 0

====
